---- MODULE Spec2Model ----
(***************************************************************************)
(* Verification model of the hedgie-agent analysis pipeline:               *)
(*   - instrument identifiers (tools/instrument_parser.py, models/trade.py)*)
(*   - Black-Scholes delta (tools/options_calculator.py)                   *)
(*   - the block-trade stage (stages/stage_1/block_trades.py)              *)
(*   - position sizing (tools/risk_calculator.py)                          *)
(*   - the five-stage orchestrator and its shared context (agent/base.py,  *)
(*     agent/memory.py, stages/stage_3..5)                                 *)
(*   - Monte Carlo VaR and numpy's global random state                     *)
(*     (tools/risk_calculator.py, stages/stage_4/risk_management.py)       *)
(*   - the two strategy classifiers (tools/trade_grouper.py,               *)
(*     tools/strategy_analyzer.py)                                         *)
(*   - the technical indicators and their signals                          *)
(*     (tools/technical_indicators.py, stages/stage_3/technical.py)        *)
(*   - the dialogue of the Telegram bot and its analysis threads           *)
(*     (tools/telegram_bot.py)                                             *)
(*                                                                         *)
(* Strings are sequences of one-character strings, so that split, float,   *)
(* strptime and the regular expression of Trade are computed character by  *)
(* character.  Real numbers are integers in thousandths (Milli) or exact   *)
(* fractions <<numerator, denominator>>.                                   *)
(***************************************************************************)
EXTENDS Integers, Sequences, FiniteSets, TLC

VARIABLES
    now,            \* datetime.now(), in hours since 2000-01-01 00:00
    p_name,         \* InstrumentParser: the identifier handed to parse
    p_out,          \* InstrumentParser: outcome of parse (NotRun until called)
    p_valid,        \* InstrumentParser: outcome of validate on the parsed info
    t_name,         \* Trade.instrument_name
    t_parsed,       \* Trade._parsed_instrument (None or an InstrumentInfo)
    t_ret,          \* outcome of the last Trade.parse_instrument_name call
    d_in,           \* OptionsCalculator.calculate_delta: the arguments
    d_out,          \* OptionsCalculator.calculate_delta: None or an OptionMetrics
    b_trades,       \* BlockTradesAnalyzer: the rows tools.get_trades returned
    b_out,          \* BlockTradesAnalyzer: the result of analyze
    pos_in,         \* RiskCalculator.calculate_position_size: the arguments
    pos_out,        \* RiskCalculator.calculate_position_size: the dict returned
    r_pc,           \* agent: the statement of process_trades[_for_telegram] reached
    r_run,          \* agent: entry point, currency and days of the run in progress
    r_context,      \* AgentMemory.context
    r_outcome,      \* agent: what the last finished run returned or showed
    r_count,        \* agent: number of runs started
    r_fetch,        \* history: what get_historical_data gave each stage of the run
    r_calls,        \* history: helper methods the stages of the run invoked
    r_done,         \* history: the results the stages of the run returned, in order
    f_call,         \* a call of a pure function: its name and arguments
    f_ret,          \* what that call returned (NotRun until it returns)
    g_rng,          \* numpy's global RandomState: position in its stream of normals
    g_rng0,         \* history: the position before the first draw
    g_threads,      \* analysis threads: returns series, next VaR call, results
    bot_chats,      \* TelegramBot: user_data, conversation and keyboards of each chat
    bot_threads,    \* TelegramBot: the analysis threads started, and where each is
    bot_context     \* the context of the agent the threads of the bot share

parserVars == <<p_name, p_out, p_valid>>
tradeVars  == <<t_name, t_parsed, t_ret>>
deltaVars  == <<d_in, d_out>>
blockVars  == <<b_trades, b_out>>
posVars    == <<pos_in, pos_out>>
runVars    == <<r_pc, r_run, r_context, r_outcome, r_count, r_fetch, r_calls, r_done>>
fnVars     == <<f_call, f_ret>>
rngVars    == <<g_rng, g_rng0, g_threads>>
botVars    == <<bot_chats, bot_threads, bot_context>>
vars       == <<now, parserVars, tradeVars, deltaVars, blockVars, posVars, runVars,
                fnVars, rngVars, botVars>>

\* Python's None, and the outcome of an operation that was not called yet
None   == [kind |-> "None"]
NotRun == [kind |-> "NotRun"]

\* no price history was fetched yet in the run
NoFetch == [technical |-> NotRun, risk |-> NotRun]

-----------------------------------------------------------------------------
(* Characters and strings                                                  *)

DigitChars == <<"0", "1", "2", "3", "4", "5", "6", "7", "8", "9">>
UpperChars == {"A", "B", "C", "D", "E", "F", "G", "H", "I", "J", "K", "L", "M",
               "N", "O", "P", "Q", "R", "S", "T", "U", "V", "W", "X", "Y", "Z"}

IsDigit(c) == \E i \in 1..10 : DigitChars[i] = c
DigitVal(c) == (CHOOSE i \in 1..10 : DigitChars[i] = c) - 1
IsUpper(c) == c \in UpperChars
\* \w of Python's re on str: letters, digits and the underscore
IsWordChar(c) == IsDigit(c) \/ IsUpper(c) \/ c = "_"

AllDigits(s) == \A i \in 1..Len(s) : IsDigit(s[i])

RECURSIVE DigitsValue(_)
DigitsValue(s) ==
    IF s = <<>> THEN 0
    ELSE 10 * DigitsValue(SubSeq(s, 1, Len(s) - 1)) + DigitVal(s[Len(s)])

RECURSIVE Pow10(_)
Pow10(n) == IF n = 0 THEN 1 ELSE 10 * Pow10(n - 1)

\* str.split(sep) for a one-character separator: "a--b" gives ["a", "", "b"]
RECURSIVE Split(_, _)
Split(s, sep) ==
    IF \A i \in 1..Len(s) : s[i] # sep THEN <<s>>
    ELSE LET k == CHOOSE i \in 1..Len(s) :
                      s[i] = sep /\ \A j \in 1..(i - 1) : s[j] # sep
         IN <<SubSeq(s, 1, k - 1)>> \o Split(SubSeq(s, k + 1, Len(s)), sep)

\* sep.join(fields)
RECURSIVE Join(_, _)
Join(fields, sep) ==
    IF fields = <<>> THEN <<>>
    ELSE IF Len(fields) = 1 THEN fields[1]
    ELSE fields[1] \o <<sep>> \o Join(Tail(fields), sep)

-----------------------------------------------------------------------------
(* float(str) on the literals the identifiers below contain: an optional   *)
(* '+', decimal digits and an optional fraction.  The value is the exact   *)
(* fraction <<numerator, denominator>>.                                    *)

FloatBody(s) == IF s # <<>> /\ s[1] = "+" THEN Tail(s) ELSE s

DotPositions(s) == {i \in 1..Len(s) : s[i] = "."}

IsFloatLiteral(s) ==
    LET b == FloatBody(s) IN
    /\ b # <<>>
    /\ \A i \in 1..Len(b) : IsDigit(b[i]) \/ b[i] = "."
    /\ Cardinality(DotPositions(b)) <= 1
    /\ \E i \in 1..Len(b) : IsDigit(b[i])

FloatValue(s) ==
    LET b == FloatBody(s)
        dots == DotPositions(b)
    IN IF dots = {} THEN <<DigitsValue(b), 1>>
       ELSE LET k == CHOOSE i \in dots : TRUE
                int == SubSeq(b, 1, k - 1)
                frac == SubSeq(b, k + 1, Len(b))
            IN <<DigitsValue(int \o frac), Pow10(Len(frac))>>

-----------------------------------------------------------------------------
(* datetime.strptime(s, '%d%b%y'): whether it raises ValueError, and the    *)
(* date it returns as a day number (days since 2000-01-01).                *)

MonthNames == << <<"J","A","N">>, <<"F","E","B">>, <<"M","A","R">>, <<"A","P","R">>,
                 <<"M","A","Y">>, <<"J","U","N">>, <<"J","U","L">>, <<"A","U","G">>,
                 <<"S","E","P">>, <<"O","C","T">>, <<"N","O","V">>, <<"D","E","C">> >>

IsMonthName(s) == \E m \in 1..12 : MonthNames[m] = s
MonthOf(s) == CHOOSE m \in 1..12 : MonthNames[m] = s

\* %y: 00..68 are 2000..2068, 69..99 are 1969..1999
YearOf(yy) == IF yy <= 68 THEN 2000 + yy ELSE 1900 + yy

IsLeap(y) == (y % 4 = 0 /\ y % 100 # 0) \/ y % 400 = 0

DaysInMonth(m, y) ==
    IF m = 2 THEN (IF IsLeap(y) THEN 29 ELSE 28)
    ELSE IF m \in {4, 6, 9, 11} THEN 30 ELSE 31

RECURSIVE DaysBeforeMonth(_, _)
DaysBeforeMonth(m, y) ==
    IF m = 1 THEN 0 ELSE DaysBeforeMonth(m - 1, y) + DaysInMonth(m - 1, y)

\* leap days of the years 1..y-1
LeapsBefore(y) == ((y - 1) \div 4) - ((y - 1) \div 100) + ((y - 1) \div 400)

DayNumber(d, m, y) ==
    365 * (y - 2000) + (LeapsBefore(y) - LeapsBefore(2000))
        + DaysBeforeMonth(m, y) + (d - 1)

\* %d is 3[0-1]|[1-2]\d|0[1-9]|[1-9]: the lengths of the day prefixes it can match
DayPrefixLens(s) ==
    {n \in {1, 2} :
        /\ Len(s) >= n
        /\ AllDigits(SubSeq(s, 1, n))
        /\ IF n = 2 THEN DigitsValue(SubSeq(s, 1, 2)) \in 1..31
                    ELSE DigitVal(s[1]) \in 1..9}

\* the prefix lengths after which a month name and exactly two year digits remain
DateSplits(s) ==
    {n \in DayPrefixLens(s) :
        /\ Len(s) = n + 5
        /\ IsMonthName(SubSeq(s, n + 1, n + 3))
        /\ AllDigits(SubSeq(s, n + 4, n + 5))}

StrptimeFields(s) ==
    LET n == CHOOSE k \in DateSplits(s) : TRUE
    IN [d |-> DigitsValue(SubSeq(s, 1, n)),
        m |-> MonthOf(SubSeq(s, n + 1, n + 3)),
        y |-> YearOf(DigitsValue(SubSeq(s, n + 4, n + 5)))]

StrptimeRaises(s) ==
    \/ DateSplits(s) = {}
    \/ StrptimeFields(s).d > DaysInMonth(StrptimeFields(s).m, StrptimeFields(s).y)

Strptime(s) ==
    DayNumber(StrptimeFields(s).d, StrptimeFields(s).m, StrptimeFields(s).y)

-----------------------------------------------------------------------------
(* The clock, and the components a specification leaves untouched         *)

\* datetime.now(): noon of 27 Mar 2025, and an hour into 28 Mar 2025
Clocks == {DayNumber(27, 3, 2025) * 24 + 12, DayNumber(28, 3, 2025) * 24 + 1}

ParserIdle == p_name = <<>> /\ p_out = NotRun /\ p_valid = NotRun
TradeIdle  == t_name = <<>> /\ t_parsed = None /\ t_ret = NotRun
DeltaIdle  == d_in = None /\ d_out = NotRun
BlockIdle  == b_trades = <<>> /\ b_out = NotRun
PosIdle    == pos_in = None /\ pos_out = NotRun
FnIdle     == f_call = None /\ f_ret = NotRun
RngIdle    == g_rng = 0 /\ g_rng0 = 0 /\ g_threads = <<>>
BotIdle    == bot_chats = <<>> /\ bot_threads = <<>> /\ bot_context = <<>>
RunIdle    ==
    /\ r_pc = "idle" /\ r_run = None /\ r_context = <<>> /\ r_outcome = NotRun
    /\ r_count = 0 /\ r_fetch = NoFetch /\ r_calls = {} /\ r_done = <<>>

-----------------------------------------------------------------------------
(* InstrumentParser (tools/instrument_parser.py)                           *)

Dash == "-"

\* InstrumentParser.parse: an InstrumentInfo, or the ValueError it raises, which
\* carries the identifier.  parts[k] raises IndexError when the field is missing,
\* float and strptime raise ValueError; fields after the fourth are never read and
\* the option type is stored as it stands.
Parse(instrument_name) ==
    LET parts == Split(instrument_name, Dash)
        raised == [kind |-> "ValueError", name |-> instrument_name]
    IN IF Len(parts) < 2 THEN raised
       ELSE IF Len(parts) < 3 THEN raised
       ELSE IF ~IsFloatLiteral(parts[3]) THEN raised
       ELSE IF Len(parts) < 4 THEN raised
       ELSE IF StrptimeRaises(parts[2]) THEN raised
       ELSE [kind |-> "InstrumentInfo",
             asset |-> parts[1],
             expiration |-> parts[2],
             strike |-> FloatValue(parts[3]),
             option_type |-> parts[4],
             expiry_date |-> Strptime(parts[2])]

SupportedAssets == {<<"B", "T", "C">>, <<"E", "T", "H">>}
OptionTypes == {<<"C">>, <<"P">>}

\* InstrumentParser.validate; expiry_date is midnight of the expiry day
Validate(info, clock) ==
    /\ info.asset \in SupportedAssets
    /\ info.option_type \in OptionTypes
    /\ info.strike[1] > 0
    /\ info.expiry_date * 24 > clock

-----------------------------------------------------------------------------
(* Trade (models/trade.py)                                                 *)

\* the last index of the longest run of characters satisfying P that starts at i
\* (i - 1 when s[i] does not satisfy P)
RunEnd(s, i, P(_)) ==
    CHOOSE j \in (i - 1)..Len(s) :
        /\ \A k \in i..j : P(s[k])
        /\ (j = Len(s) \/ ~P(s[j + 1]))

IsDash(s, i) == i <= Len(s) /\ s[i] = Dash

NoMatch == <<>>

\* re.match(r"(\w+)-(\d+[A-Z]+\d+)-(\d+)-([CP])", s): the four groups, or NoMatch.
\* re.match anchors the pattern at the start of s only.  No class of the pattern
\* matches '-', so every greedy run is the only way to match.
ReMatch(s) ==
    LET a  == RunEnd(s, 1, IsWordChar)
        e1 == RunEnd(s, a + 2, IsDigit)
        e2 == RunEnd(s, e1 + 1, IsUpper)
        e3 == RunEnd(s, e2 + 1, IsDigit)
        k  == RunEnd(s, e3 + 2, IsDigit)
    IN IF /\ a >= 1 /\ IsDash(s, a + 1)
          /\ e1 >= a + 2 /\ e2 >= e1 + 1 /\ e3 >= e2 + 1 /\ IsDash(s, e3 + 1)
          /\ k >= e3 + 2 /\ IsDash(s, k + 1)
          /\ k + 2 <= Len(s) /\ s[k + 2] \in {"C", "P"}
       THEN <<SubSeq(s, 1, a), SubSeq(s, a + 2, e3), SubSeq(s, e3 + 2, k),
              SubSeq(s, k + 2, k + 2)>>
       ELSE NoMatch

\* models/trade.py imports no logging and binds no module-level name `logger`
LoggerDefined == FALSE

Unknown == <<"U", "N", "K", "N", "O", "W", "N">>
Fallback(instrument_name) ==
    [kind |-> "InstrumentInfo",
     asset |-> Split(instrument_name, Dash)[1],
     expiration |-> Unknown,
     strike |-> 0,
     option_type |-> <<"?">>]

\* Trade.parse_instrument_name: <<value returned or exception raised, new cache>>
ParseInstrumentName(instrument_name, cached) ==
    IF cached # None THEN <<cached, cached>>
    ELSE LET match == ReMatch(instrument_name) IN
         IF match = NoMatch
         THEN IF LoggerDefined
              THEN <<Fallback(instrument_name), cached>>
              ELSE <<[kind |-> "NameError", name |-> "logger"], cached>>
         ELSE LET info == [kind |-> "InstrumentInfo",
                           asset |-> match[1],
                           expiration |-> match[2],
                           strike |-> DigitsValue(match[3]),
                           option_type |-> match[4]]
              IN <<info, info>>

-----------------------------------------------------------------------------
(* OptionsCalculator (tools/options_calculator.py).  Prices, volatilities  *)
(* and deltas are in thousandths; datetimes are in hours.                  *)

Milli == 10 * 10 * 10

Abs(x) == IF x < 0 THEN -x ELSE x
Sign(x) == IF x < 0 THEN -1 ELSE IF x > 0 THEN 1 ELSE 0
\* the quotient a / b, rounded toward zero
Quot(a, b) == Sign(a) * Sign(b) * (Abs(a) \div Abs(b))

\* math.sqrt on a non-negative integer: the integer part of the root
RECURSIVE ISqrtBetween(_, _, _)
ISqrtBetween(x, lo, hi) ==
    IF hi - lo <= 1 THEN lo
    ELSE LET mid == (lo + hi) \div 2 IN
         IF mid * mid <= x THEN ISqrtBetween(x, mid, hi) ELSE ISqrtBetween(x, lo, mid)
\* 46340 is the largest root whose square TLC's integers hold
ISqrt(x) == ISqrtBetween(x, 0, IF x < 46340 THEN x + 1 ELSE 46341)

\* 1000 * ln(n / d) for n, d > 0: exact multiples of ln 2 = 0.693 at the powers of
\* two, linear in between
RECURSIVE LnMilli(_, _)
LnMilli(n, d) ==
    IF n >= 2 * d THEN 693 + LnMilli(n, 2 * d)
    ELSE IF n < d THEN LnMilli(2 * n, d) - 693
    ELSE (693 * (n - d)) \div d

\* 1000 * Phi(x / 1000) of scipy.stats.norm.cdf: the table at steps of 0.5,
\* linear in between, Phi(-x) = 1 - Phi(x)
PhiTable == <<500, 691, 841, 933, 977, 994, 999, 1000>>
PhiUpper(x) ==
    LET i == x \div 500 IN
    IF i >= 7 THEN 1000
    ELSE PhiTable[i + 1] + ((PhiTable[i + 2] - PhiTable[i + 1]) * (x % 500)) \div 500
NormCdf(x) == IF x >= 0 THEN PhiUpper(x) ELSE 1000 - PhiUpper(-x)

\* OptionsCalculator.__init__: rate = 0.05
Rate == 50

\* a datetime, in hours since 2000-01-01 00:00
Datetime(h) == [kind |-> "datetime", hours |-> h]

\* truthiness of a float, and of a datetime or None
Truthy(x) == x # 0
TruthyDate(e) == e # None

\* (expiry_date - datetime.now()).days: whole days, rounded down
DaysToExpiry(expiry_date, clock) == (expiry_date.hours - clock) \div 24

\* the delta of either type without the put's shift by one
DeltaOfUnshifted(option_type, phi) == phi

\* lines 70-73: norm.cdf(d1) for a call, norm.cdf(d1) - 1 for a put
DeltaOf(option_type, phi) == IF option_type = <<"C">> THEN phi ELSE phi - Milli

\* the body of the try block of calculate_delta: an OptionMetrics, None, or the
\* exception raised (math.log raises ValueError on a ratio <= 0)
CalculateDeltaBody(current_price, strike, expiry_date, volatility, option_type, clock) ==
    IF ~(Truthy(current_price) /\ Truthy(strike) /\ TruthyDate(expiry_date)
            /\ Truthy(volatility))
    THEN None
    ELSE LET days_to_expiry == DaysToExpiry(expiry_date, clock) IN
         IF days_to_expiry <= 0 THEN None
         ELSE LET sigma == IF volatility > Milli THEN volatility \div 100 ELSE volatility
                  sqrtT == ISqrt((days_to_expiry * Milli * Milli) \div 365)
              IN IF Sign(current_price) # Sign(strike)
                 THEN [kind |-> "Raised", exception |-> "ValueError"]
                 ELSE LET numer == LnMilli(Abs(current_price), Abs(strike))
                                   + ((Rate + (sigma * sigma) \div (2 * Milli))
                                          * days_to_expiry) \div 365
                          d1 == Quot(numer * Milli * Milli, sigma * sqrtT)
                      IN IF option_type \notin {<<"C">>, <<"P">>} THEN None
                         ELSE [kind |-> "OptionMetrics",
                               delta |-> DeltaOf(option_type, NormCdf(d1)),
                               current_price |-> current_price,
                               strike |-> strike,
                               days_to_expiry |-> days_to_expiry,
                               volatility |-> volatility,
                               option_type |-> option_type,
                               rate |-> Rate]

\* calculate_delta: `except Exception` logs and returns None
CalculateDelta(current_price, strike, expiry_date, volatility, option_type, clock) ==
    LET r == CalculateDeltaBody(current_price, strike, expiry_date, volatility,
                                option_type, clock)
    IN IF r.kind = "Raised" THEN None ELSE r

-----------------------------------------------------------------------------
(* Specification SpecDelta: one call of calculate_delta                    *)

MaxExpiryDays == 30

DeltaPrices == {0, 100 * Milli, 200 * Milli, -100 * Milli}
DeltaStrikes == {0, 100 * Milli, 50 * Milli, -100 * Milli}
DeltaVols == {0, 500, Milli, 50 * Milli, -500}
ExpiryOffsetsHours == {-25, -1, 0, 1, 23, 24, 25, 24 * MaxExpiryDays}
DeltaTypes == {<<"C">>, <<"P">>, <<"X">>}

InitDelta ==
    /\ now \in Clocks
    /\ d_in \in [current_price : DeltaPrices,
                 strike : DeltaStrikes,
                 expiry_date : {None} \cup {Datetime(now + h) : h \in ExpiryOffsetsHours},
                 volatility : DeltaVols,
                 option_type : DeltaTypes]
    /\ d_out = NotRun
    /\ ParserIdle /\ TradeIdle /\ BlockIdle /\ PosIdle /\ RunIdle /\ FnIdle /\ RngIdle
    /\ BotIdle

CallCalculateDelta ==
    /\ d_out = NotRun
    /\ d_out' = CalculateDelta(d_in.current_price, d_in.strike, d_in.expiry_date,
                               d_in.volatility, d_in.option_type, now)
    /\ UNCHANGED <<now, d_in, parserVars, tradeVars, blockVars, posVars, runVars, fnVars, rngVars,
                   botVars>>

NextDelta == CallCalculateDelta

SpecDelta == InitDelta /\ [][NextDelta]_vars


-----------------------------------------------------------------------------
(* BlockTradesAnalyzer (stages/stage_1/block_trades.py)                    *)

\* float(x) of the fraction <<numerator, denominator>>, in thousandths
FloatOf(q) == (q[1] * Milli) \div q[2]

\* the loop body with a trade without metrics kept at a delta of zero
AnalyzeTradeZeroFilled(trade, clock) ==
    LET instrument_info == Parse(trade.instrument_name)
        metrics == IF instrument_info.kind # "InstrumentInfo" THEN None
                   ELSE CalculateDelta(trade.index_price,
                                       FloatOf(instrument_info.strike),
                                       Datetime(instrument_info.expiry_date * 24),
                                       trade.iv, instrument_info.option_type, clock)
    IN IF metrics # None
       THEN <<[trade |-> trade, metrics |-> metrics,
               instrument_info |-> instrument_info]>>
       ELSE <<[trade |-> trade,
               metrics |-> [kind |-> "OptionMetrics", delta |-> 0],
               instrument_info |-> [kind |-> "InstrumentInfo",
                                    option_type |-> <<"?">>]]>>

\* one pass of the loop of _analyze_data: the trade enriched with its metrics and
\* instrument_info when a delta was computed; nothing when parse raised (the
\* handler logs and continues) or calculate_delta returned None
AnalyzeTrade(trade, clock) ==
    LET instrument_info == Parse(trade.instrument_name) IN
    IF instrument_info.kind # "InstrumentInfo" THEN <<>>
    ELSE LET metrics == CalculateDelta(trade.index_price,
                                       FloatOf(instrument_info.strike),
                                       Datetime(instrument_info.expiry_date * 24),
                                       trade.iv,
                                       instrument_info.option_type,
                                       clock)
         IN IF metrics # None
            THEN <<[trade |-> trade, metrics |-> metrics,
                    instrument_info |-> instrument_info]>>
            ELSE <<>>

\* _analyze_data
RECURSIVE AnalyzeData(_, _)
AnalyzeData(trades, clock) ==
    IF trades = <<>> THEN <<>>
    ELSE AnalyzeTrade(Head(trades), clock) \o AnalyzeData(Tail(trades), clock)

IsCall(t) == t.instrument_info.option_type = <<"C">>
IsPut(t) == t.instrument_info.option_type = <<"P">>

\* sum(t['metrics'].delta * float(t['amount']) for t in trades)
RECURSIVE SumDeltaAmount(_)
SumDeltaAmount(trades) ==
    IF trades = <<>> THEN 0
    ELSE Head(trades).metrics.delta * Head(trades).trade.amount
             + SumDeltaAmount(Tail(trades))

\* sum(float(t['amount']) for t in trades)
RECURSIVE SumAmount(_)
SumAmount(trades) ==
    IF trades = <<>> THEN 0 ELSE Head(trades).trade.amount + SumAmount(Tail(trades))

\* _prepare_results (total_delta in thousandths)
PrepareResults(trades) ==
    IF trades = <<>> THEN [status |-> "no_data"]
    ELSE LET calls == SelectSeq(trades, IsCall)
             puts == SelectSeq(trades, IsPut)
         IN [total_trades |-> Len(trades),
             calls_count |-> Len(calls),
             puts_count |-> Len(puts),
             total_delta |-> SumDeltaAmount(trades),
             call_volume |-> SumAmount(calls),
             put_volume |-> SumAmount(puts)]

\* BlockTradesAnalyzer.analyze on the rows collected
BlockAnalyze(trades, clock) == PrepareResults(AnalyzeData(trades, clock))

-----------------------------------------------------------------------------
(* Specification SpecBlock: the block-trade stage on a list of rows        *)

MaxTrades == 3

N_CallLive   == <<"B","T","C","-","3","1","D","E","C","2","5","-","1","0","0","-","C">>
N_PutLive    == <<"B","T","C","-","3","1","D","E","C","2","5","-","1","0","0","-","P">>
N_CallToday  == <<"B","T","C","-","2","8","M","A","R","2","5","-","1","0","0","-","C">>
N_TypeX      == <<"B","T","C","-","3","1","D","E","C","2","5","-","1","0","0","-","X">>
N_Perpetual  == <<"B","T","C","-","P","E","R","P","E","T","U","A","L">>
N_StrikeZero == <<"B","T","C","-","3","1","D","E","C","2","5","-","0","-","P">>

Row(name, price, iv, amount) ==
    [instrument_name |-> name, index_price |-> price, iv |-> iv, amount |-> amount]

TradeRows ==
    {Row(N_CallLive, 100 * Milli, 50 * Milli, 10),
     Row(N_PutLive, 200 * Milli, 50 * Milli, 20),
     Row(N_CallToday, 100 * Milli, 50 * Milli, 30),
     Row(N_TypeX, 100 * Milli, 50 * Milli, 40),
     Row(N_Perpetual, 100 * Milli, 50 * Milli, 50),
     Row(N_StrikeZero, 100 * Milli, 50 * Milli, 60),
     Row(N_CallLive, 100 * Milli, 0, 70)}

TradeLists == UNION {[1..n -> TradeRows] : n \in 0..MaxTrades}

InitBlock ==
    /\ now \in Clocks
    /\ b_trades \in TradeLists
    /\ b_out = NotRun
    /\ ParserIdle /\ TradeIdle /\ DeltaIdle /\ PosIdle /\ RunIdle /\ FnIdle /\ RngIdle
    /\ BotIdle

CallBlockAnalyze ==
    /\ b_out = NotRun
    /\ b_out' = BlockAnalyze(b_trades, now)
    /\ UNCHANGED <<now, b_trades, parserVars, tradeVars, deltaVars, posVars, runVars, fnVars, rngVars,
                   botVars>>

NextBlock == CallBlockAnalyze

SpecBlock == InitBlock /\ [][NextBlock]_vars


-----------------------------------------------------------------------------
(* Identifiers fed to the two parsers: fields joined with '-'              *)

MaxFields == 5

AssetFields  == {<<"B", "T", "C">>, <<"X", "R", "P">>}
ExpiryFields == {<<"2", "8", "M", "A", "R", "2", "5">>,     \* a date
                 <<"1", "J", "A", "N", "2", "4">>,          \* one-digit day
                 <<"3", "0", "F", "E", "B", "2", "5">>,     \* no such day
                 <<"P", "E", "R", "P">>}                    \* no date at all
StrikeFields == {<<"1", "0", "0">>, <<"0">>, <<"0", "5", "0">>, <<"2", ".", "5">>,
                 <<"1", "X">>, <<>>}
TypeFields   == {<<"C">>, <<"P">>, <<"X">>, <<"C", "X">>}
ExtraField   == <<"Z">>

\* the first n of asset, expiry, strike, type and as many extra fields as needed
Identifier(a, e, k, t, n) ==
    Join(SubSeq(<<a, e, k, t>> \o [i \in 1..(MaxFields - 4) |-> ExtraField], 1, n), Dash)

Identifiers ==
    {Identifier(a, e, k, t, n) :
        a \in AssetFields, e \in ExpiryFields, k \in StrikeFields,
        t \in TypeFields, n \in 1..MaxFields}

-----------------------------------------------------------------------------
(* Specification SpecParser: InstrumentParser.parse, then validate         *)

InitParser ==
    /\ now \in Clocks
    /\ p_name \in Identifiers
    /\ p_out = NotRun
    /\ p_valid = NotRun
    /\ TradeIdle /\ DeltaIdle /\ BlockIdle /\ PosIdle /\ RunIdle /\ FnIdle /\ RngIdle
    /\ BotIdle

CallParse ==
    /\ p_out = NotRun
    /\ p_out' = Parse(p_name)
    /\ UNCHANGED <<now, p_name, p_valid, tradeVars, deltaVars, blockVars, posVars, runVars, fnVars, rngVars,
                   botVars>>

CallValidate ==
    /\ p_out.kind = "InstrumentInfo"
    /\ p_valid = NotRun
    /\ p_valid' = [kind |-> "bool", value |-> Validate(p_out, now)]
    /\ UNCHANGED <<now, p_name, p_out, tradeVars, deltaVars, blockVars, posVars, runVars, fnVars, rngVars,
                   botVars>>

NextParser == CallParse \/ CallValidate

SpecParser == InitParser /\ [][NextParser]_vars

-----------------------------------------------------------------------------
(* Specification SpecTrade: a Trade and the calls that parse its name      *)

InitTrade ==
    /\ now \in Clocks
    /\ t_name \in Identifiers
    /\ t_parsed = None
    /\ t_ret = NotRun
    /\ ParserIdle /\ DeltaIdle /\ BlockIdle /\ PosIdle /\ RunIdle /\ FnIdle /\ RngIdle
    /\ BotIdle

\* trade.parse_instrument_name()
CallParseInstrumentName ==
    /\ t_ret' = ParseInstrumentName(t_name, t_parsed)[1]
    /\ t_parsed' = ParseInstrumentName(t_name, t_parsed)[2]
    /\ UNCHANGED <<now, t_name, parserVars, deltaVars, blockVars, posVars, runVars, fnVars, rngVars,
                   botVars>>

\* trade.instrument_info, the property
CallInstrumentInfo ==
    /\ t_ret' = ParseInstrumentName(t_name, t_parsed)[1]
    /\ t_parsed' = ParseInstrumentName(t_name, t_parsed)[2]
    /\ UNCHANGED <<now, t_name, parserVars, deltaVars, blockVars, posVars, runVars, fnVars, rngVars,
                   botVars>>

NextTrade == CallParseInstrumentName \/ CallInstrumentInfo

SpecTrade == InitTrade /\ [][NextTrade]_vars

-----------------------------------------------------------------------------
(* Exact fractions <<numerator, denominator>> with a positive denominator  *)

RECURSIVE GCD(_, _)
GCD(a, b) == IF b = 0 THEN a ELSE GCD(b, a % b)

Rat(n, d) ==
    LET g == GCD(Abs(n), Abs(d))
        sgn == IF d < 0 THEN -1 ELSE 1
    IN IF n = 0 THEN <<0, 1>> ELSE <<sgn * (n \div g), sgn * (d \div g)>>
RInt(n) == <<n, 1>>
RAdd(x, y) == Rat(x[1] * y[2] + y[1] * x[2], x[2] * y[2])
RSub(x, y) == Rat(x[1] * y[2] - y[1] * x[2], x[2] * y[2])
\* the product, with the common factors taken out before multiplying
RMul(x, y) ==
    LET g == GCD(Abs(x[1]), Abs(y[2]))
        h == GCD(Abs(y[1]), Abs(x[2]))
    IN Rat((x[1] \div g) * (y[1] \div h), (x[2] \div h) * (y[2] \div g))
RDiv(x, y) ==
    IF y[1] = 0 THEN Rat(x[1] * y[2], 0) ELSE RMul(x, <<y[2], y[1]>>)
RIsZero(x) == x[1] = 0
RLeq(x, y) == x[1] * y[2] <= y[1] * x[2]
RLess(x, y) == x[1] * y[2] < y[1] * x[2]
RMin(x, y) == IF RLeq(x, y) THEN x ELSE y
Hundred == RInt(10 * 10)

\* a float division: the quotient, or the ZeroDivisionError Python raises
ZeroDivisionError == [kind |-> "Raised", exception |-> "ZeroDivisionError"]
IsRaised(v) == DOMAIN v = {"kind", "exception"}

-----------------------------------------------------------------------------
(* RiskCalculator (tools/risk_calculator.py)                               *)

\* the parameter check of calculate_position_size
InvalidStopOrVolatilityNegativeOnly(stop_loss_percent, volatility_percent) ==
    RLess(stop_loss_percent, RInt(0)) \/ RLess(volatility_percent, RInt(0))

InvalidStopOrVolatility(stop_loss_percent, volatility_percent) ==
    RLeq(stop_loss_percent, RInt(0)) \/ RLeq(volatility_percent, RInt(0))

\* the dict returned when the check fails
PositionError == [position_size |-> RInt(0), error |-> "invalid stop-loss or volatility"]

\* calculate_position_size with the stop-loss narrowed by the volatility instead
\* of widened
CalculatePositionSizeNarrowedStop(capital, max_risk_percent, stop_loss_percent, volatility_percent) ==
    IF InvalidStopOrVolatility(stop_loss_percent, volatility_percent)
    THEN PositionError
    ELSE LET max_risk_amount == RMul(capital, RDiv(max_risk_percent, Hundred))
             adjusted_sl == RMul(stop_loss_percent,
                                 RSub(RInt(1), RDiv(volatility_percent, Hundred)))
             divisor == RMul(RDiv(adjusted_sl, Hundred), capital)
         IN IF RIsZero(divisor) THEN ZeroDivisionError
            ELSE LET position_size == RDiv(max_risk_amount, divisor)
                     position_value == RMul(capital, position_size)
                 IN [position_size |-> position_size,
                     position_value |-> position_value,
                     capital_percent |-> RMul(position_size, Hundred),
                     potential_loss |-> RMul(position_value,
                                             RDiv(stop_loss_percent, Hundred)),
                     stop_loss_percent |-> stop_loss_percent,
                     risk_reward_ratio |-> RInt(2)]

CalculatePositionSize(capital, max_risk_percent, stop_loss_percent, volatility_percent) ==
    IF InvalidStopOrVolatility(stop_loss_percent, volatility_percent)
    THEN PositionError
    ELSE LET max_risk_amount == RMul(capital, RDiv(max_risk_percent, Hundred))
             adjusted_sl == RMul(stop_loss_percent,
                                 RAdd(RInt(1), RDiv(volatility_percent, Hundred)))
             divisor == RMul(RDiv(adjusted_sl, Hundred), capital)
         IN IF RIsZero(divisor) THEN ZeroDivisionError
            ELSE LET position_size == RDiv(max_risk_amount, divisor)
                     position_value == RMul(capital, position_size)
                 IN [position_size |-> position_size,
                     position_value |-> position_value,
                     capital_percent |-> RMul(position_size, Hundred),
                     potential_loss |-> RMul(position_value,
                                             RDiv(stop_loss_percent, Hundred)),
                     stop_loss_percent |-> stop_loss_percent,
                     risk_reward_ratio |-> RInt(2)]

\* recommend_stop_loss
RecommendStopLoss(current_price, volatility_percent) ==
    LET conservative_percent == RMin(RMul(volatility_percent, Rat(3, 2)), RInt(10))
        aggressive_percent == volatility_percent
        moderate_percent == RDiv(RAdd(conservative_percent, aggressive_percent), RInt(2))
        Level(percent) == RMul(current_price, RSub(RInt(1), RDiv(percent, Hundred)))
    IN [conservative |-> [percent |-> conservative_percent,
                          price_level |-> Level(conservative_percent)],
        moderate |-> [percent |-> moderate_percent,
                      price_level |-> Level(moderate_percent)],
        aggressive |-> [percent |-> aggressive_percent,
                        price_level |-> Level(aggressive_percent)]]

-----------------------------------------------------------------------------
(* Specification SpecPos: one call of calculate_position_size              *)

PosCapitals == {RInt(0), RInt(1000), RInt(10000)}
PosMaxRisks == {RInt(0), RInt(1), RInt(2), RInt(5)}
PosStopLosses == {RInt(-1), RInt(0), Rat(1, 2), RInt(5), RInt(10)}
PosVolatilities == {RInt(-10), RInt(0), Rat(5, 2), RInt(50), RInt(200)}

InitPos ==
    /\ now \in Clocks
    /\ pos_in \in [capital : PosCapitals,
                   max_risk_percent : PosMaxRisks,
                   stop_loss_percent : PosStopLosses,
                   volatility_percent : PosVolatilities]
    /\ pos_out = NotRun
    /\ ParserIdle /\ TradeIdle /\ DeltaIdle /\ BlockIdle /\ RunIdle /\ FnIdle /\ RngIdle
    /\ BotIdle

CallCalculatePositionSize ==
    /\ pos_out = NotRun
    /\ pos_out' = CalculatePositionSize(pos_in.capital, pos_in.max_risk_percent,
                                        pos_in.stop_loss_percent,
                                        pos_in.volatility_percent)
    /\ UNCHANGED <<now, pos_in, parserVars, tradeVars, deltaVars, blockVars, runVars, fnVars, rngVars,
                   botVars>>

NextPos == CallCalculatePositionSize

SpecPos == InitPos /\ [][NextPos]_vars


-----------------------------------------------------------------------------
(* Python dicts as functions on their keys, and the labels the stages use. *)
(* The Russian labels are transliterated; a label is a sequence of         *)
(* characters, so that the `in` tests of the code are substring searches.  *)

EmptyDict == <<>>
Get(d, key, default) == IF key \in DOMAIN d THEN d[key] ELSE default

\* sub in s
Contains(s, sub) ==
    \E i \in 1..(Len(s) - Len(sub) + 1) : SubSeq(s, i, i + Len(sub) - 1) = sub

Neytralnyy      == <<"n", "e", "y", "t", "r", "a", "l", "n", "y", "y">>
SilnyyBychiy    == <<"s", "i", "l", "n", "y", "y", " ", "b", "y", "c", "h", "i", "y">>
UmerennoBychiy  == <<"u", "m", "e", "r", "e", "n", "n", "o", " ", "b", "y", "c", "h", "i", "y">>
SilnyyMedvezhiy == <<"s", "i", "l", "n", "y", "y", " ", "m", "e", "d", "v", "e", "z", "h", "i", "y">>
Bychye          == <<"b", "y", "c", "h", "y", "e">>
Medvezhye       == <<"m", "e", "d", "v", "e", "z", "h", "y", "e">>
Neytralnoe      == <<"n", "e", "y", "t", "r", "a", "l", "n", "o", "e">>
Bych            == <<"b", "y", "c", "h">>
Medvezh         == <<"m", "e", "d", "v", "e", "z", "h">>
Voskhodyashch   == <<"v", "o", "s", "k", "h", "o", "d", "y", "a", "s", "h", "c", "h">>
Niskhodyashch   == <<"n", "i", "s", "k", "h", "o", "d", "y", "a", "s", "h", "c", "h">>
Positive        == <<"p", "o", "s", "i", "t", "i", "v", "e">>
Neutral         == <<"n", "e", "u", "t", "r", "a", "l">>

\* f"{x:.2f}": the decimal with two places nearest to x (ties to even), as a
\* number of hundredths
Fmt2(x) ==
    LET n == x[1] * 100
        q == n \div x[2]
        r == n % x[2]
    IN IF 2 * r > x[2] \/ (2 * r = x[2] /\ q % 2 = 1) THEN q + 1 ELSE q

-----------------------------------------------------------------------------
(* AgentMemory (agent/memory.py)                                           *)

\* update_context with the dict replacing the context
UpdateContextReplacing(context, data) == data

\* update_context: self.context.update(data)
UpdateContext(context, data) ==
    [k \in DOMAIN context \cup DOMAIN data |->
        IF k \in DOMAIN data THEN data[k] ELSE context[k]]

-----------------------------------------------------------------------------
(* Price history.  A DataFrame of candles is abstracted to its length, its *)
(* last close and what the indicator and risk functions derive from its    *)
(* closes: the overall signal, the volatility and the one-day VaR (both in *)
(* percent).                                                               *)

\* len(df) < 14
MinCandles == 14
MaxCandles == 15

Frame(len, last_close, overall_signal, volatility, var_95) ==
    [len |-> len, last_close |-> last_close, overall_signal |-> overall_signal,
     volatility |-> volatility, var_95 |-> var_95]

\* pd.DataFrame()
EmptyFrame == Frame(0, RInt(0), Neytralnyy, RInt(0), RInt(0))

Frames ==
    {Frame(MinCandles - 1, RInt(100), UmerennoBychiy, RInt(4), RInt(2)),
     Frame(MinCandles, RInt(100), UmerennoBychiy, RInt(4), RInt(2)),
     Frame(MaxCandles, RInt(90), Neytralnyy, RInt(0), RInt(0))}

\* PriceDataFetcher.get_historical_data: every exception is caught and reported
\* as a dict without a 'data' key
HistoricalData ==
    {[status |-> "error", message |-> "request failed"]}
        \cup {[status |-> "success", data |-> df] : df \in Frames}


-----------------------------------------------------------------------------
(* FundamentalAnalyzer (stages/stage_2/fundamental.py)                     *)

\* tools.get_news: a failure, or a batch of articles with more than five top ones
NewsData == {[status |-> "error"], [status |-> "success", total_articles |-> 6]}

FundamentalAnalyze(news_data) ==
    IF news_data.status # "success"
    THEN [status |-> "error", total_articles |-> 0, sentiment |-> Neutral]
    ELSE [status |-> "success", total_articles |-> news_data.total_articles,
          sentiment |-> IF news_data.total_articles > 5 THEN Positive ELSE Neutral]

-----------------------------------------------------------------------------
(* TechnicalAnalyzer (stages/stage_3/technical.py)                         *)

\* _get_price_data without the check of the number of candles
TechnicalGetPriceDataUnchecked(data) ==
    IF "data" \in DOMAIN data
    THEN [status |-> "success", message |-> "", data |-> data.data]
    ELSE [status |-> "error", message |-> "unexpected format", data |-> EmptyFrame]

\* _get_price_data
TechnicalGetPriceData(data) ==
    IF "data" \notin DOMAIN data
    THEN [status |-> "error", message |-> "unexpected format", data |-> EmptyFrame]
    ELSE IF data.data.len < MinCandles
         THEN [status |-> "error", message |-> "too few candles", data |-> data.data]
         ELSE [status |-> "success", message |-> "", data |-> data.data]

\* _calculate_indicators, _analyze_indicators
CalculateIndicators(df) == [last_close |-> df.last_close, signal |-> df.overall_signal]
AnalyzeIndicators(indicators) == [overall_signal |-> indicators.signal]

\* the helper methods analyze invokes after _get_price_data
TechnicalHelpers == {"technical._calculate_indicators", "technical._analyze_indicators"}
TechnicalCalls(data) ==
    IF TechnicalGetPriceData(data).status # "success" THEN {} ELSE TechnicalHelpers

TechnicalAnalyze(data, clock) ==
    LET price_data == TechnicalGetPriceData(data) IN
    IF price_data.status # "success" THEN [status |-> "error"]
    ELSE LET indicators == CalculateIndicators(price_data.data)
         IN [status |-> "success",
             price_data |-> price_data,
             indicators |-> indicators,
             analysis |-> AnalyzeIndicators(indicators),
             timestamp |-> clock]

-----------------------------------------------------------------------------
(* RiskManagementAnalyzer (stages/stage_4/risk_management.py)              *)

\* _get_price_data
RiskGetPriceData(data) ==
    IF "data" \notin DOMAIN data
    THEN [status |-> "error", message |-> "unexpected format", data |-> EmptyFrame]
    ELSE IF data.data.len < MinCandles
         THEN [status |-> "error", message |-> "too few candles", data |-> data.data]
         ELSE [status |-> "success", message |-> "", data |-> data.data]

\* _calculate_risk_metrics: capital = 10000, max_risk_percent = 2.0
Capital == RInt(10000)
MaxRiskPercent == RInt(2)

CalculateRiskMetrics(df) ==
    LET volatility == df.volatility
        current_price == df.last_close
        stop_loss == RecommendStopLoss(current_price, volatility)
        Position(tier) ==
            CalculatePositionSize(Capital, MaxRiskPercent, stop_loss[tier].percent,
                                  volatility)
    IN [var_95 |-> df.var_95,
        volatility |-> volatility,
        current_price |-> current_price,
        investment_example |-> Capital,
        potential_loss_95 |-> RMul(Capital, RDiv(df.var_95, Hundred)),
        stop_loss |-> stop_loss,
        position_sizing |-> [conservative |-> Position("conservative"),
                             moderate |-> Position("moderate"),
                             aggressive |-> Position("aggressive")]]

\* _analyze_risk: the level of risk, and the tier of the moderate position
AnalyzeRisk(metrics) ==
    LET moderate_position == Get(Get(metrics, "position_sizing", EmptyDict),
                                 "moderate", EmptyDict)
        position_percent == Get(moderate_position, "capital_percent", RInt(0))
    IN [risk_level |-> IF RLess(metrics.var_95, RInt(3)) THEN "nizkiy"
                       ELSE IF RLess(metrics.var_95, RInt(7)) THEN "sredniy"
                       ELSE "vysokiy",
        position_assessment |->
            IF DOMAIN moderate_position = {} THEN "ne opredelena"
            ELSE IF RLess(RInt(50), position_percent) THEN "ochen krupnaya"
            ELSE IF RLess(RInt(25), position_percent) THEN "krupnaya"
            ELSE IF RLess(RInt(10), position_percent) THEN "umerennaya"
            ELSE "konservativnaya"]

RiskHelpers == {"risk._calculate_risk_metrics", "risk._analyze_risk"}
RiskCalls(data) == IF RiskGetPriceData(data).status # "success" THEN {} ELSE RiskHelpers

RiskAnalyze(data, clock) ==
    LET price_data == RiskGetPriceData(data) IN
    IF price_data.status # "success" THEN [status |-> "error"]
    ELSE LET risk_metrics == CalculateRiskMetrics(price_data.data)
         IN [status |-> "success",
             price_data |-> price_data,
             risk_metrics |-> risk_metrics,
             risk_assessment |-> AnalyzeRisk(risk_metrics),
             timestamp |-> clock]


-----------------------------------------------------------------------------
(* RecommendationGenerator (stages/stage_5/recommendations.py).            *)
(* total_delta of the block-trade result is in thousandths.                *)

IsBullish(s) == Contains(s, Bych) \/ Contains(s, Voskhodyashch)
IsBearish(s) == Contains(s, Medvezh) \/ Contains(s, Niskhodyashch)
Count(P(_), a, b, c) ==
    (IF P(a) THEN 1 ELSE 0) + (IF P(b) THEN 1 ELSE 0) + (IF P(c) THEN 1 ELSE 0)

\* _prepare_recommendations: the dict of recommendations, or the exception raised
\* by the division of call_volume by put_volume
PrepareRecommendations(currency, days, block_trades, fundamental, technical, risk) ==
    LET current_price == Get(Get(technical, "indicators", EmptyDict),
                             "last_close", RInt(0))
        technical_sentiment == Get(Get(technical, "analysis", EmptyDict),
                                   "overall_signal", Neytralnyy)
        total_delta == Get(block_trades, "total_delta", 0)
        option_sentiment == IF total_delta > 100 * Milli THEN Bychye
                            ELSE IF total_delta < -100 * Milli THEN Medvezhye
                            ELSE Neytralnoe
        news_sentiment == Get(fundamental, "sentiment", Neutral)
        bull_count == Count(IsBullish, technical_sentiment, option_sentiment,
                            news_sentiment)
        bear_count == Count(IsBearish, technical_sentiment, option_sentiment,
                            news_sentiment)
        action == IF bull_count >= 2 THEN "BUY"
                  ELSE IF bear_count >= 2 THEN "SELL" ELSE "HOLD"
        risk_level == Get(Get(risk, "risk_assessment", EmptyDict),
                          "risk_level", "ne opredelen")
        risk_metrics == Get(risk, "risk_metrics", EmptyDict)
        stop_loss == Get(Get(risk_metrics, "stop_loss", EmptyDict),
                         "moderate", EmptyDict)
        sl_percent == Get(stop_loss, "percent", RInt(5))
        sl_price == RMul(current_price, RSub(RInt(1), RDiv(sl_percent, Hundred)))
        risk_reward_ratio == RInt(2)
        tp_percent == RMul(sl_percent, risk_reward_ratio)
        tp_price == RMul(current_price, RAdd(RInt(1), RDiv(tp_percent, Hundred)))
        position == Get(Get(risk_metrics, "position_sizing", EmptyDict),
                        "moderate", EmptyDict)
        position_percent == Get(position, "capital_percent", RInt(0))
        call_volume == Get(block_trades, "call_volume", 0)
        put_volume == Get(block_trades, "put_volume", 1)
    IN IF put_volume = 0 THEN ZeroDivisionError
       ELSE [calls_count |-> Get(block_trades, "calls_count", 0),
             puts_count |-> Get(block_trades, "puts_count", 0),
             option_sentiment |-> option_sentiment,
             currency |-> currency,
             days |-> days,
             current_price |-> Fmt2(current_price),
             recommendation |-> action,
             risk_level |-> risk_level,
             total_trades |-> Get(block_trades, "total_trades", 0),
             call_put_ratio |-> Fmt2(Rat(call_volume, put_volume)),
             total_delta |-> Fmt2(Rat(total_delta, Milli)),
             technical_signal |-> technical_sentiment,
             news_sentiment |-> news_sentiment,
             position_size |-> Fmt2(position_percent),
             stop_loss_price |-> Fmt2(sl_price),
             stop_loss_percent |-> Fmt2(sl_percent),
             take_profit_price |-> Fmt2(tp_price),
             take_profit_percent |-> Fmt2(tp_percent)]

\* generate: reads the four stage results from the context; _generate_report
\* catches its own exceptions
Generate(context, currency, days, clock) ==
    LET recommendations ==
            PrepareRecommendations(currency, days,
                                   Get(context, "block_trades_analysis", EmptyDict),
                                   Get(context, "fundamental_analysis", EmptyDict),
                                   Get(context, "technical_analysis", EmptyDict),
                                   Get(context, "risk_management", EmptyDict))
    IN IF IsRaised(recommendations) THEN recommendations
       ELSE [status |-> "success", recommendations |-> recommendations,
             timestamp |-> clock]


-----------------------------------------------------------------------------
(* HedgieAgent (agent/base.py): process_trades (entry "cli") and           *)
(* process_trades_for_telegram (entry "telegram"), one step per stage.     *)
(* r_done holds the local variables block_trades_results ... of the run.   *)

MaxRuns == 2

Currencies == {"BTC", "ETH"}
DaysChoices == {30}
Entries == {"cli", "telegram"}

RunTradeLists ==
    {<<>>,
     <<Row(N_CallLive, 100 * Milli, 50 * Milli, 400)>>,
     <<Row(N_PutLive, 200 * Milli, 50 * Milli, 20)>>,
     <<Row(N_CallLive, 100 * Milli, 50 * Milli, 400),
       Row(N_PutLive, 200 * Milli, 50 * Milli, 20)>>}

StageKeys == <<"block_trades_analysis", "fundamental_analysis",
               "technical_analysis", "risk_management", "recommendations">>

\* the local variable holding the result of the stage stored under key
Local(key) == r_done[CHOOSE i \in 1..Len(r_done) : r_done[i].key = key].result

\* _make_final_conclusion: the exception it raises, or None
MakeFinalConclusion(block_trades, fundamental, technical, risk) ==
    IF "status" \notin DOMAIN technical THEN "KeyError"
    ELSE IF "total_delta" \notin DOMAIN block_trades THEN "KeyError"
    ELSE "None"

\* the except clause of the entry point: show_error, or the error dict returned
Handled(entry, exception) ==
    IF entry = "telegram" THEN [status |-> "error", error |-> exception]
    ELSE [shown |-> "error", error |-> exception]

\* the statement after the risk stage
AfterRisk(entry) == IF entry = "cli" THEN "conclusion" ELSE "recommendations"

InitRun ==
    /\ now = DayNumber(27, 3, 2025) * 24 + 12
    /\ RunIdle
    /\ ParserIdle /\ TradeIdle /\ DeltaIdle /\ BlockIdle /\ PosIdle /\ FnIdle /\ RngIdle
    /\ BotIdle

\* the exception reaches the except clause of the entry point
Fail(exception) ==
    /\ r_outcome' = Handled(r_run.entry, exception)
    /\ r_pc' = "idle"
    /\ UNCHANGED <<r_context, r_done>>

\* the stage returned result: it is stored under key and the run goes on
Store(key, result, next_pc) ==
    /\ r_context' = UpdateContext(r_context, [k \in {key} |-> result])
    /\ r_done' = Append(r_done, [key |-> key, result |-> result])
    /\ r_pc' = next_pc
    /\ UNCHANGED r_outcome

StartRun ==
    /\ r_pc = "idle"
    /\ r_count < MaxRuns
    /\ \E entry \in Entries, currency \in Currencies, days \in DaysChoices :
        /\ r_run' = [entry |-> entry, currency |-> currency, days |-> days]
        /\ r_context' =
               IF entry = "telegram"
               THEN UpdateContext(r_context, [currency |-> currency, days |-> days,
                                              timestamp |-> now + 1])
               ELSE r_context
    /\ now' = now + 1
    /\ r_count' = r_count + 1
    /\ r_pc' = "block_trades"
    /\ r_outcome' = NotRun
    /\ r_fetch' = NoFetch
    /\ r_calls' = {}
    /\ r_done' = <<>>
    /\ UNCHANGED <<parserVars, tradeVars, deltaVars, blockVars, posVars, fnVars, rngVars, botVars>>

BlockTradesStep ==
    /\ r_pc = "block_trades"
    /\ \/ Fail("OperationalError")      \* get_trades: the database is down
       \/ \E trades \in RunTradeLists :
            LET results == BlockAnalyze(trades, now) IN
            /\ r_context' = UpdateContext(
                                UpdateContext(r_context, [raw_trades |-> trades]),
                                [block_trades_analysis |-> results])
            /\ r_done' = Append(r_done, [key |-> "block_trades_analysis",
                                         result |-> results])
            /\ r_pc' = "fundamental"
            /\ UNCHANGED r_outcome
    /\ UNCHANGED <<now, r_run, r_count, r_fetch, r_calls>>
    /\ UNCHANGED <<parserVars, tradeVars, deltaVars, blockVars, posVars, fnVars, rngVars, botVars>>

FundamentalStep ==
    /\ r_pc = "fundamental"
    /\ \E news_data \in NewsData :
        Store("fundamental_analysis", FundamentalAnalyze(news_data), "technical")
    /\ UNCHANGED <<now, r_run, r_count, r_fetch, r_calls>>
    /\ UNCHANGED <<parserVars, tradeVars, deltaVars, blockVars, posVars, fnVars, rngVars, botVars>>

TechnicalStep ==
    /\ r_pc = "technical"
    /\ \E data \in HistoricalData :
        /\ Store("technical_analysis", TechnicalAnalyze(data, now), "risk")
        /\ r_fetch' = [r_fetch EXCEPT !.technical = data]
        /\ r_calls' = r_calls \cup TechnicalCalls(data)
    /\ UNCHANGED <<now, r_run, r_count>>
    /\ UNCHANGED <<parserVars, tradeVars, deltaVars, blockVars, posVars, fnVars, rngVars, botVars>>

RiskStep ==
    /\ r_pc = "risk"
    /\ \E data \in HistoricalData :
        /\ Store("risk_management", RiskAnalyze(data, now), AfterRisk(r_run.entry))
        /\ r_fetch' = [r_fetch EXCEPT !.risk = data]
        /\ r_calls' = r_calls \cup RiskCalls(data)
    /\ UNCHANGED <<now, r_run, r_count>>
    /\ UNCHANGED <<parserVars, tradeVars, deltaVars, blockVars, posVars, fnVars, rngVars, botVars>>

ConclusionStep ==
    /\ r_pc = "conclusion"
    /\ LET raised == MakeFinalConclusion(Local("block_trades_analysis"),
                                         Local("fundamental_analysis"),
                                         Local("technical_analysis"),
                                         Local("risk_management"))
       IN IF raised # "None" THEN Fail(raised)
          ELSE /\ r_pc' = "recommendations"
               /\ UNCHANGED <<r_context, r_done, r_outcome>>
    /\ UNCHANGED <<now, r_run, r_count, r_fetch, r_calls>>
    /\ UNCHANGED <<parserVars, tradeVars, deltaVars, blockVars, posVars, fnVars, rngVars, botVars>>

RecommendationsStep ==
    /\ r_pc = "recommendations"
    /\ LET results == Generate(r_context, r_run.currency, r_run.days, now) IN
       IF IsRaised(results) THEN Fail(results.exception)
       ELSE /\ r_context' = UpdateContext(r_context, [recommendations |-> results])
            /\ r_done' = Append(r_done, [key |-> "recommendations",
                                         result |-> results])
            /\ r_outcome' = IF r_run.entry = "telegram" THEN results
                            ELSE [shown |-> "recommendations", results |-> results]
            /\ r_pc' = "idle"
    /\ UNCHANGED <<now, r_run, r_count, r_fetch, r_calls>>
    /\ UNCHANGED <<parserVars, tradeVars, deltaVars, blockVars, posVars, fnVars, rngVars, botVars>>

NextRun ==
    \/ StartRun \/ BlockTradesStep \/ FundamentalStep \/ TechnicalStep
    \/ RiskStep \/ ConclusionStep \/ RecommendationsStep

SpecRun == InitRun /\ [][NextRun]_vars


-----------------------------------------------------------------------------
(***************************************************************************)
(* RiskCalculator.calculate_var_monte_carlo (tools/risk_calculator.py)     *)
(*                                                                         *)
(* Returns, their mean and their standard deviation are in thousandths;    *)
(* standard normal draws are in thousandths; simulated returns and the     *)
(* VaR are in millionths.  Confidence levels are in percent.               *)
(***************************************************************************)
RECURSIVE SumSeq(_)
SumSeq(s) == IF s = <<>> THEN 0 ELSE Head(s) + SumSeq(Tail(s))

RECURSIVE SumSquaresAround(_, _)
SumSquaresAround(s, m) ==
    IF s = <<>> THEN 0 ELSE (Head(s) - m) * (Head(s) - m) + SumSquaresAround(Tail(s), m)

\* Series.mean()
SeriesMean(returns) == Quot(SumSeq(returns), Len(returns))

\* Series.std(): the sample standard deviation (ddof = 1)
SeriesStd(returns) ==
    ISqrt(SumSquaresAround(returns, SeriesMean(returns)) \div (Len(returns) - 1))

\* np.sqrt(time_horizon), in thousandths
SqrtMilli(h) == ISqrt(h * Milli * Milli)

\* loc + scale * z for one standard normal draw z
NormalSample(loc, scale, z) == loc * Milli + Quot(scale * z, Milli)

\* np.random.normal(loc, scale, size) given the standard normal draws behind it
NormalSamples(loc, scale, draws) ==
    [i \in 1..Len(draws) |-> NormalSample(loc, scale, draws[i])]

RECURSIVE Insert(_, _)
Insert(x, sorted) ==
    IF sorted = <<>> THEN <<x>>
    ELSE IF x <= Head(sorted) THEN <<x>> \o sorted
    ELSE <<Head(sorted)>> \o Insert(x, Tail(sorted))

RECURSIVE Sorted(_)
Sorted(s) == IF s = <<>> THEN <<>> ELSE Insert(Head(s), Sorted(Tail(s)))

\* np.percentile(a, q): linear interpolation between the two order statistics
\* around the rank q / 100 * (n - 1)
Percentile(a, q) ==
    LET s    == Sorted(a)
        n    == Len(s)
        rank == q * (n - 1)
        lo   == rank \div 100 + 1
        hi   == IF lo < n THEN lo + 1 ELSE n
    IN s[lo] + Quot((rank % 100) * (s[hi] - s[lo]), 100)

\* lines 38-44: the percentile of the simulated returns, then its absolute value
VarOfSamples(samples, confidence_level) ==
    Abs(Percentile(samples, 100 - confidence_level))

\* lines 31-36: the distribution parameters and the simulated returns
SimulatedReturns(returns, time_horizon, draws) ==
    NormalSamples(SeriesMean(returns) * time_horizon,
                  Quot(SeriesStd(returns) * SqrtMilli(time_horizon), Milli),
                  draws)

CalculateVarMonteCarlo(returns, confidence_level, time_horizon, draws) ==
    VarOfSamples(SimulatedReturns(returns, time_horizon, draws), confidence_level)

(***************************************************************************)
(* Specification: seeded VaR calls.  The generator is seeded before each   *)
(* call, so that the calls at the two confidence levels simulate from the  *)
(* same draws.                                                             *)
(***************************************************************************)
Simulations == 3

ReturnSeries == {<<490, 510, 500>>, <<-10, 10, 0>>, <<-20, 20, 0>>,
                 <<-510, -490, -500>>, <<10, 30, 20>>}
NormalDraws  == {-2326, -1645, 0, 1645, 2326}
Horizons     == {1, 5}

InitVar ==
    /\ now = 0
    /\ \E returns \in ReturnSeries, h \in Horizons, draws \in [1..Simulations -> NormalDraws] :
          f_call = [fn |-> "calculate_var_monte_carlo", returns |-> returns,
                    time_horizon |-> h, draws |-> draws]
    /\ f_ret = NotRun
    /\ ParserIdle /\ TradeIdle /\ DeltaIdle /\ BlockIdle /\ PosIdle /\ RunIdle /\ RngIdle
    /\ BotIdle

CallVarSeeded ==
    /\ f_ret = NotRun
    /\ f_ret' = [var_95 |-> CalculateVarMonteCarlo(f_call.returns, 95,
                                                   f_call.time_horizon, f_call.draws),
                 var_99 |-> CalculateVarMonteCarlo(f_call.returns, 99,
                                                   f_call.time_horizon, f_call.draws)]
    /\ UNCHANGED <<now, f_call, parserVars, tradeVars, deltaVars, blockVars, posVars,
                   runVars, rngVars, botVars>>

NextVar == CallVarSeeded
SpecVar == InitVar /\ [][NextVar]_vars

-----------------------------------------------------------------------------
(***************************************************************************)
(* Specification: concurrent analyses.  TelegramBot._start_analysis starts *)
(* a thread per analysis; the risk stage of each makes four VaR calls, and *)
(* every np.random.normal call draws from numpy's one global RandomState.  *)
(* The generator is a fixed stream of standard normal draws and its state  *)
(* is the position in the stream; one np.random.normal call takes its      *)
(* draws in one piece and advances the position.                           *)
(***************************************************************************)
NormalStream == <<-1645, 0, 2326, -2326, 1645, 842, -842>>

\* the next n draws of the global generator at position pos
DrawsAt(pos, n) == [i \in 1..n |-> NormalStream[((pos + i - 1) % Len(NormalStream)) + 1]]

\* risk_management.py lines 86-87, 94-95: confidence level and horizon of the calls
RiskVarCalls == <<[confidence_level |-> 95, time_horizon |-> 1],
                  [confidence_level |-> 99, time_horizon |-> 1],
                  [confidence_level |-> 95, time_horizon |-> 5],
                  [confidence_level |-> 95, time_horizon |-> 10]>>

Analyses == {"A", "B"}
AnalysisReturns == {<<-10, 10, 0>>, <<-30, 10, -10>>}

InitRng ==
    /\ now = 0
    /\ g_rng \in 0..(Len(NormalStream) - 1)
    /\ g_rng0 = g_rng
    /\ g_threads \in [Analyses -> {[returns |-> r, results |-> <<>>] : r \in AnalysisReturns}]
    /\ ParserIdle /\ TradeIdle /\ DeltaIdle /\ BlockIdle /\ PosIdle /\ RunIdle /\ FnIdle
    /\ BotIdle

\* the next VaR call of analysis t
VarCall(t) ==
    LET th   == g_threads[t]
        k    == Len(th.results) + 1
    IN /\ k <= Len(RiskVarCalls)
       /\ g_threads' = [g_threads EXCEPT ![t].results =
              Append(@, CalculateVarMonteCarlo(th.returns, RiskVarCalls[k].confidence_level,
                                               RiskVarCalls[k].time_horizon,
                                               DrawsAt(g_rng, Simulations)))]
       /\ g_rng' = (g_rng + Simulations) % Len(NormalStream)
       /\ UNCHANGED <<now, g_rng0, parserVars, tradeVars, deltaVars, blockVars, posVars,
                      runVars, fnVars, botVars>>

NextRng == \E t \in Analyses : VarCall(t)
SpecRng == InitRng /\ [][NextRng]_vars

-----------------------------------------------------------------------------
(***************************************************************************)
(* TradeGrouper.get_block_strategy (tools/trade_grouper.py) and            *)
(* StrategyAnalyzer.identify_strategy (tools/strategy_analyzer.py)         *)
(***************************************************************************)
\* a str value
Str(s) == [kind |-> "str", value |-> s]

\* list.count(x)
RECURSIVE CountOf(_, _)
CountOf(s, x) ==
    IF s = <<>> THEN 0 ELSE (IF Head(s) = x THEN 1 ELSE 0) + CountOf(Tail(s), x)

\* x in list
InList(s, x) == \E i \in 1..Len(s) : s[i] = x

\* set(list)
SetOf(s) == {s[i] : i \in 1..Len(s)}

GetBlockStrategy(trades) ==
    LET types   == [i \in 1..Len(trades) |-> trades[i].instrument_info.option_type]
        strikes == [i \in 1..Len(trades) |-> trades[i].instrument_info.strike]
    IN IF Len(trades) = 2
       THEN IF InList(types, "C") /\ InList(types, "P")
            THEN IF Cardinality(SetOf(strikes)) = 1 THEN "Straddle" ELSE "Risk Reversal"
            ELSE IF CountOf(types, "C") = 2 THEN "Call Spread"
            ELSE IF CountOf(types, "P") = 2 THEN "Put Spread"
            ELSE "Complex Strategy"
       ELSE IF Len(trades) = 4 THEN "Iron Condor/Butterfly"
       ELSE "Complex Strategy"

\* the tags in the order identify_strategy looks for them, with their labels
StrategyTags ==
    <<[tag |-> <<"R", "R">>,           label |-> "Risk Reversal"],
      [tag |-> <<"S", "T", "R", "D">>, label |-> "Straddle"],
      [tag |-> <<"B", "F">>,           label |-> "Butterfly"],
      [tag |-> <<"I", "C">>,           label |-> "Iron Condor"],
      [tag |-> <<"C", "S">>,           label |-> "Call Spread"],
      [tag |-> <<"P", "S">>,           label |-> "Put Spread"]>>

\* the if / elif chain of lines 18-29, from the i-th tag on
RECURSIVE IdentifyFrom(_, _)
IdentifyFrom(combo_id, i) ==
    IF i > Len(StrategyTags) THEN "Unknown Strategy"
    ELSE IF Contains(combo_id, StrategyTags[i].tag) THEN StrategyTags[i].label
    ELSE IdentifyFrom(combo_id, i + 1)

\* line 15: None and the empty string are falsy
IdentifyStrategy(combo_id) ==
    IF combo_id = None \/ combo_id.value = <<>> THEN "Single Trade"
    ELSE IdentifyFrom(combo_id.value, 1)

(***************************************************************************)
(* Specification: the two classifiers, one call of either.  A leg is a     *)
(* trade with its parsed instrument; a combo id is ASSET-TAG-EXPIRY, None  *)
(* or empty.                                                               *)
(***************************************************************************)
MaxLegs == 4

LegTypes   == {"C", "P", "?"}
LegStrikes == {100, 110}
Legs       == {[instrument_info |-> [option_type |-> t, strike |-> k]] :
                  t \in LegTypes, k \in LegStrikes}
LegGroups  == UNION {[1..n -> Legs] : n \in 0..MaxLegs}

ComboAssets == {<<"B", "T", "C">>, <<"M", "A", "T", "I", "C">>, <<"B", "N", "B">>}
ComboTags   == {StrategyTags[i].tag : i \in 1..Len(StrategyTags)}
                  \cup {<<"S", "T", "R", "G">>, <<"F", "S">>}
ComboExpiry == <<"2", "8", "M", "A", "R", "2", "5">>
ComboIds    == {None, Str(<<>>)} \cup {Str(Join(<<a, t, ComboExpiry>>, Dash)) :
                                          a \in ComboAssets, t \in ComboTags}

InitStrategy ==
    /\ now = 0
    /\ \/ \E trades \in LegGroups :
             f_call = [fn |-> "get_block_strategy", trades |-> trades]
       \/ \E combo_id \in ComboIds :
             f_call = [fn |-> "identify_strategy", combo_id |-> combo_id]
    /\ f_ret = NotRun
    /\ ParserIdle /\ TradeIdle /\ DeltaIdle /\ BlockIdle /\ PosIdle /\ RunIdle /\ RngIdle
    /\ BotIdle

CallGetBlockStrategy ==
    /\ f_call.fn = "get_block_strategy"
    /\ f_ret = NotRun
    /\ f_ret' = Str(GetBlockStrategy(f_call.trades))
    /\ UNCHANGED <<now, f_call, parserVars, tradeVars, deltaVars, blockVars, posVars,
                   runVars, rngVars, botVars>>

CallIdentifyStrategy ==
    /\ f_call.fn = "identify_strategy"
    /\ f_ret = NotRun
    /\ f_ret' = Str(IdentifyStrategy(f_call.combo_id))
    /\ UNCHANGED <<now, f_call, parserVars, tradeVars, deltaVars, blockVars, posVars,
                   runVars, rngVars, botVars>>

NextStrategy == CallGetBlockStrategy \/ CallIdentifyStrategy
SpecStrategy == InitStrategy /\ [][NextStrategy]_vars

-----------------------------------------------------------------------------
(***************************************************************************)
(* TechnicalIndicators (tools/technical_indicators.py)                     *)
(*                                                                         *)
(* A price series is a sequence of whole prices.  A column is a sequence   *)
(* of cells, a cell being NaN or a value in thousandths.                   *)
(***************************************************************************)
NaN == <<>>
Cell(v) == <<v>>
IsNaN(c) == c = NaN

MinOf(a, b) == IF a <= b THEN a ELSE b
MaxOf(a, b) == IF a >= b THEN a ELSE b

\* the sum of the w values of s that end at row i
WindowSum(s, i, w) == SumSeq(SubSeq(s, i - w + 1, i))

\* prices.rolling(window).mean(): undefined until the window is full
CalculateSma(prices, window) ==
    [i \in 1..Len(prices) |->
        IF i < window THEN NaN
        ELSE Cell(Quot(WindowSum(prices, i, window) * Milli, window))]

\* prices.rolling(window).std(), the sample standard deviation: the root of
\* sum((window * x - sum)^2) / (window^2 * (window - 1)), to a hundredth
RollingStd(prices, window) ==
    [i \in 1..Len(prices) |->
        IF i < window \/ window < 2 THEN NaN
        ELSE LET total == WindowSum(prices, i, window)
                 devs  == [k \in 1..window |-> window * prices[i - window + k] - total]
                 q     == SumSquaresAround(devs, 0)
             IN Cell(10 * ISqrt(((q * 100) \div (window * window * (window - 1))) * 100))]

\* delta.where(delta > 0, 0) and -delta.where(delta < 0, 0): the first row has
\* no difference and counts as 0
Gains(prices) ==
    [i \in 1..Len(prices) |->
        IF i > 1 /\ prices[i] > prices[i - 1] THEN prices[i] - prices[i - 1] ELSE 0]
Losses(prices) ==
    [i \in 1..Len(prices) |->
        IF i > 1 /\ prices[i] < prices[i - 1] THEN prices[i - 1] - prices[i] ELSE 0]

\* 100 - 100 / (1 + rs) with rs = gain / loss, a zero loss replaced by the float
\* epsilon: 0 when there is no gain either, 100 (less than 1e-13 below it) when
\* there is one.  The window means are in the ratio of the window sums.
RsiValue(gain, loss) ==
    IF loss = 0 THEN (IF gain = 0 THEN 0 ELSE 100 * Milli)
    ELSE Quot(100 * Milli * gain, gain + loss)

CalculateRsi(prices, window) ==
    [i \in 1..Len(prices) |->
        IF i < window THEN NaN
        ELSE Cell(RsiValue(WindowSum(Gains(prices), i, window),
                           WindowSum(Losses(prices), i, window)))]

\* values.ewm(span = window, adjust = False).mean() on values in thousandths:
\* y[1] = x[1], y[t] = y[t-1] + 2 / (window + 1) * (x[t] - y[t-1])
RECURSIVE CalculateEma(_, _)
CalculateEma(values, window) ==
    IF Len(values) <= 1 THEN values
    ELSE LET before == CalculateEma(SubSeq(values, 1, Len(values) - 1), window)
             last   == before[Len(before)]
         IN Append(before, last + Quot(2 * (values[Len(values)] - last), window + 1))

CalculateMacd(prices, fast_period, slow_period, signal_period) ==
    LET milli     == [i \in 1..Len(prices) |-> prices[i] * Milli]
        fast_ema  == CalculateEma(milli, fast_period)
        slow_ema  == CalculateEma(milli, slow_period)
        macd_line == [i \in 1..Len(prices) |-> fast_ema[i] - slow_ema[i]]
        signal    == CalculateEma(macd_line, signal_period)
    IN [macd      |-> [i \in 1..Len(prices) |-> Cell(macd_line[i])],
        signal    |-> [i \in 1..Len(prices) |-> Cell(signal[i])],
        histogram |-> [i \in 1..Len(prices) |-> Cell(macd_line[i] - signal[i])]]

NumStd == 2

CalculateBollingerBands(prices, window) ==
    LET middle == CalculateSma(prices, window)
        std    == RollingStd(prices, window)
        band(sgn) == [i \in 1..Len(prices) |->
                         IF IsNaN(middle[i]) \/ IsNaN(std[i]) THEN NaN
                         ELSE Cell(middle[i][1] + sgn * NumStd * std[i][1])]
    IN [upper |-> band(1), middle |-> middle, lower |-> band(-1)]

(***************************************************************************)
(* TechnicalAnalyzer._calculate_indicators (stages/stage_3/technical.py)   *)
(***************************************************************************)
\* the canonical window whatever the length of the series
CanonicalWindow(canonical, least, len, divisor) == canonical

\* lines 82-83, 87-88, 96-98: min(canonical, max(least, len // divisor))
AdaptiveWindow(canonical, least, len, divisor) ==
    MinOf(canonical, MaxOf(least, len \div divisor))

Windows(len) ==
    [SMA_20      |-> AdaptiveWindow(20, 5, len, 2),
     SMA_50      |-> AdaptiveWindow(50, 5, len, 2),
     SMA_200     |-> AdaptiveWindow(200, 5, len, 2),
     RSI         |-> AdaptiveWindow(14, 5, len, 3),
     MACD_fast   |-> AdaptiveWindow(12, 3, len, 4),
     MACD_slow   |-> AdaptiveWindow(26, 6, len, 3),
     MACD_signal |-> AdaptiveWindow(9, 3, len, 5),
     Bollinger   |-> AdaptiveWindow(20, 5, len, 2)]

\* line 111: BB_StdDev / BB_Middle * 100, to a tenth of a percent
VolatilityColumn(std, middle) ==
    [i \in 1..Len(std) |->
        IF IsNaN(std[i]) \/ IsNaN(middle[i]) \/ middle[i] = Cell(0) THEN NaN
        ELSE Cell(Quot(std[i][1] * Milli, middle[i][1]) * 100)]

\* line 114: the sign of the change of the column, 0 where it has none
TrendColumn(sma) ==
    [i \in 1..Len(sma) |->
        IF i = 1 \/ IsNaN(sma[i]) \/ IsNaN(sma[i - 1]) THEN Cell(0)
        ELSE Cell(Sign(sma[i][1] - sma[i - 1][1]))]

\* lines 79-114: the table before its gaps are filled
IndicatorColumns(closes) ==
    LET w    == Windows(Len(closes))
        macd == CalculateMacd(closes, w.MACD_fast, w.MACD_slow, w.MACD_signal)
        bb   == CalculateBollingerBands(closes, w.Bollinger)
        std  == RollingStd(closes, w.SMA_20)
        sma  == CalculateSma(closes, w.SMA_20)
    IN [close        |-> [i \in 1..Len(closes) |-> Cell(closes[i] * Milli)],
        SMA_20       |-> sma,
        SMA_50       |-> CalculateSma(closes, w.SMA_50),
        SMA_200      |-> CalculateSma(closes, w.SMA_200),
        RSI          |-> CalculateRsi(closes, w.RSI),
        MACD         |-> macd.macd,
        MACD_Signal  |-> macd.signal,
        MACD_Hist    |-> macd.histogram,
        BB_Middle    |-> bb.middle,
        BB_Upper     |-> bb.upper,
        BB_Lower     |-> bb.lower,
        BB_StdDev    |-> std,
        Volatility   |-> VolatilityColumn(std, bb.middle),
        Trend_SMA_20 |-> TrendColumn(sma)]

\* Series.ffill(): a gap takes the last value before it
RECURSIVE Ffill(_)
Ffill(col) ==
    IF Len(col) <= 1 THEN col
    ELSE LET before == Ffill(SubSeq(col, 1, Len(col) - 1))
             cell   == col[Len(col)]
         IN Append(before, IF IsNaN(cell) THEN before[Len(before)] ELSE cell)

\* Series.bfill(): a gap takes the first value after it
RECURSIVE Bfill(_)
Bfill(col) ==
    IF Len(col) <= 1 THEN col
    ELSE LET after == Bfill(Tail(col))
         IN <<IF IsNaN(Head(col)) THEN Head(after) ELSE Head(col)>> \o after

\* line 117: data.ffill().bfill()
FillGaps(columns) == [c \in DOMAIN columns |-> Bfill(Ffill(columns[c]))]

\* data.iloc[-1].to_dict(): the cells of the last row
LastRow(columns) == [c \in DOMAIN columns |-> columns[c][Len(columns[c])]]

\* lines 79-142 for a non-empty series
CalculateIndicatorTable(closes) ==
    LET data == FillGaps(IndicatorColumns(closes))
    IN [dataframe |-> data, current |-> LastRow(data)]

-----------------------------------------------------------------------------
(***************************************************************************)
(* TechnicalAnalyzer._analyze_indicators (stages/stage_3/technical.py),    *)
(* the signals read from the last row of the indicator table.  Prices and  *)
(* indicator values are in thousandths of the price unit, the RSI in       *)
(* thousandths of a point; a comparison with NaN is false.                 *)
(***************************************************************************)
Gt(a, b) == ~IsNaN(a) /\ ~IsNaN(b) /\ a[1] > b[1]
Lt(a, b) == ~IsNaN(a) /\ ~IsNaN(b) /\ a[1] < b[1]

UmerennoMedvezhiy ==
    <<"u", "m", "e", "r", "e", "n", "n", "o", " ", "m", "e", "d", "v", "e", "z", "h", "i", "y">>

\* lines 151-155
TrendSignal(current) ==
    IF Gt(current.SMA_20, current.SMA_50) THEN "voskhodyashchiy"
    ELSE IF Lt(current.SMA_20, current.SMA_50) THEN "niskhodyashchiy"
    ELSE "bokovoy"

\* lines 158-162
RsiSignal(current) ==
    IF Gt(current.RSI, Cell(70 * Milli)) THEN "perekuplen"
    ELSE IF Lt(current.RSI, Cell(30 * Milli)) THEN "pereprodan"
    ELSE "neytralnyy"

\* lines 165-169
MacdSignal(current) ==
    IF Gt(current.MACD, current.MACD_Signal) THEN "bychiy" ELSE "medvezhiy"

\* lines 172-176
BollingerSignal(current) ==
    IF Gt(current.close, current.BB_Upper) THEN "perekuplen"
    ELSE IF Lt(current.close, current.BB_Lower) THEN "pereprodan"
    ELSE "neytralnyy"

\* lines 179-184
Signals(current) ==
    [trend |-> TrendSignal(current), RSI |-> RsiSignal(current),
     MACD |-> MacdSignal(current), Bollinger |-> BollingerSignal(current)]

BullSignals == {"voskhodyashchiy", "bychiy", "pereprodan"}
BearSignals == {"niskhodyashchiy", "medvezhiy", "perekuplen"}

\* lines 186-187: the number of signals among the given ones
CountSignals(signals, among) == Cardinality({k \in DOMAIN signals : signals[k] \in among})

\* lines 189-197, with the first comparison lacking its '+ 1'
OverallSignalStrongAtOne(bull_count, bear_count) ==
    IF bull_count > bear_count THEN SilnyyBychiy
    ELSE IF bear_count > bull_count + 1 THEN SilnyyMedvezhiy
    ELSE IF bear_count > bull_count THEN UmerennoMedvezhiy
    ELSE Neytralnyy

\* lines 189-197
OverallSignal(bull_count, bear_count) ==
    IF bull_count > bear_count + 1 THEN SilnyyBychiy
    ELSE IF bull_count > bear_count THEN UmerennoBychiy
    ELSE IF bear_count > bull_count + 1 THEN SilnyyMedvezhiy
    ELSE IF bear_count > bull_count THEN UmerennoMedvezhiy
    ELSE Neytralnyy

\* _analyze_indicators without the support and resistance levels
AnalyzeCurrent(current) ==
    LET signals == Signals(current) IN
    [trend |-> signals.trend, signals |-> signals,
     overall_signal |-> OverallSignal(CountSignals(signals, BullSignals),
                                      CountSignals(signals, BearSignals))]

-----------------------------------------------------------------------------
(***************************************************************************)
(* Specification: the technical stage on one price series, in two steps    *)
(* (the indicator columns, then filling the gaps and reading the signals), *)
(* and _analyze_indicators on one last row.                                *)
(***************************************************************************)
MaxSeriesLen == 20

\* the price series: a start price and a cycle of price changes.  With the
\* price unit at 1/19, 1900 + 20 * i runs from 100 to 120 in 20 candles.
StartPrice == 19 * 100
ChangeCycles == {<<0>>, <<20>>, <<-20>>, <<20, -20>>, <<30, -10>>, <<-30, 10>>,
                 <<0, 0, 60>>, <<-60, 0, 0>>}

RECURSIVE SeriesOf(_, _)
SeriesOf(cycle, len) ==
    IF len = 1 THEN <<StartPrice>>
    ELSE LET before == SeriesOf(cycle, len - 1)
         IN Append(before, before[len - 1] + cycle[((len - 2) % Len(cycle)) + 1])

CloseSeries == {SeriesOf(c, n) : c \in ChangeCycles, n \in MinCandles..MaxSeriesLen}

\* last rows: the close at 100 against its averages, bands and oscillators
CurrentRows ==
    {[close |-> Cell(100 * Milli), SMA_20 |-> Cell(sma * Milli), SMA_50 |-> Cell(100 * Milli),
      RSI |-> Cell(rsi * Milli), MACD |-> Cell(macd), MACD_Signal |-> Cell(0),
      BB_Lower |-> Cell(bb[1] * Milli), BB_Upper |-> Cell(bb[2] * Milli)] :
        sma \in {95, 100, 105}, rsi \in {20, 30, 50, 70, 80}, macd \in {-1, 0, 1},
        bb \in {<<90, 110>>, <<101, 111>>, <<89, 99>>}}

InitTech ==
    /\ now = 0
    /\ \/ \E closes \in CloseSeries : f_call = [fn |-> "analyze", closes |-> closes]
       \/ \E current \in CurrentRows :
             f_call = [fn |-> "_analyze_indicators", current |-> current]
    /\ f_ret = NotRun
    /\ ParserIdle /\ TradeIdle /\ DeltaIdle /\ BlockIdle /\ PosIdle /\ RunIdle /\ RngIdle
    /\ BotIdle

\* _calculate_indicators up to line 114
CalculateColumns ==
    /\ f_call.fn = "analyze"
    /\ f_ret = NotRun
    /\ f_ret' = [at |-> "columns", windows |-> Windows(Len(f_call.closes)),
                 data |-> IndicatorColumns(f_call.closes)]
    /\ UNCHANGED <<now, f_call, parserVars, tradeVars, deltaVars, blockVars, posVars,
                   runVars, rngVars, botVars>>

\* _calculate_indicators from line 117, then _analyze_indicators
FillAndAnalyze ==
    /\ f_call.fn = "analyze"
    /\ f_ret # NotRun /\ f_ret.at = "columns"
    /\ LET indicators == CalculateIndicatorTable(f_call.closes)
       IN f_ret' = [at |-> "done", indicators |-> indicators,
                    analysis |-> AnalyzeCurrent(indicators.current)]
    /\ UNCHANGED <<now, f_call, parserVars, tradeVars, deltaVars, blockVars, posVars,
                   runVars, rngVars, botVars>>

CallAnalyzeIndicators ==
    /\ f_call.fn = "_analyze_indicators"
    /\ f_ret = NotRun
    /\ f_ret' = [at |-> "done", analysis |-> AnalyzeCurrent(f_call.current)]
    /\ UNCHANGED <<now, f_call, parserVars, tradeVars, deltaVars, blockVars, posVars,
                   runVars, rngVars, botVars>>

NextTech == CalculateColumns \/ FillAndAnalyze \/ CallAnalyzeIndicators
SpecTech == InitTech /\ [][NextTech]_vars

-----------------------------------------------------------------------------
(***************************************************************************)
(* str() of the numbers an InstrumentInfo holds: the strict parser stores  *)
(* the strike as a float (instrument_parser.py line 25), the lenient one   *)
(* as an int (models/trade.py line 57).                                    *)
(***************************************************************************)
\* str(n) for an int n >= 0
RECURSIVE StrInt(_)
StrInt(n) ==
    IF n < 10 THEN <<DigitChars[n + 1]>>
    ELSE StrInt(n \div 10) \o <<DigitChars[(n % 10) + 1]>>

\* the k decimal digits of n < 10^k, zeros in front included
RECURSIVE FixedDigits(_, _)
FixedDigits(n, k) ==
    IF k = 0 THEN <<>>
    ELSE FixedDigits(n \div 10, k - 1) \o <<DigitChars[(n % 10) + 1]>>

RECURSIVE StripTrailingZeros(_)
StripTrailingZeros(s) ==
    IF s # <<>> /\ s[Len(s)] = "0" THEN StripTrailingZeros(SubSeq(s, 1, Len(s) - 1))
    ELSE s

\* the digits after the point of the fraction x = <<n, 10^k>>, none at the end
FractionDigits(x) ==
    StripTrailingZeros(FixedDigits(x[1] % x[2],
                                   CHOOSE k \in 0..9 : Pow10(k) = x[2]))

\* str(x) for a float x >= 0 below 1e16: the shortest decimal that reads back as
\* x, always with a point and at least one digit after it ('110000.0')
StrFloat(x) ==
    StrInt(x[1] \div x[2]) \o <<".">>
        \o (IF FractionDigits(x) = <<>> THEN <<"0">> ELSE FractionDigits(x))

-----------------------------------------------------------------------------
(***************************************************************************)
(* TechnicalAnalyzer._find_support_levels and _find_resistance_levels      *)
(* (stages/stage_3/technical.py).  Prices are whole numbers; rows are      *)
(* numbered from 1, so that Python's index i is row i + 1.                 *)
(***************************************************************************)
LevelWindow == 10

\* lines 214-217 and 241-244: the rows i of range(window, len - window) whose
\* value is no worse than every value within window rows, in row order;
\* sgn = 1 looks for lows, sgn = -1 for highs
RECURSIVE ExtremaFrom(_, _, _, _)
ExtremaFrom(values, window, sgn, row) ==
    IF row > Len(values) - window THEN <<>>
    ELSE (IF \A j \in 1..window :
                /\ sgn * values[row] <= sgn * values[row - j]
                /\ sgn * values[row] <= sgn * values[row + j]
          THEN <<values[row]>> ELSE <<>>)
         \o ExtremaFrom(values, window, sgn, row + 1)

Extrema(values, window, sgn) == ExtremaFrom(values, window, sgn, window + 1)

\* abs(level - prev) > np.mean(levels) * 0.01, on whole numbers
FartherThanTolerance(level, prev, levels) ==
    100 * Abs(level - prev) * Len(levels) > SumSeq(levels)

\* the candidates as they stand, near-duplicates included
MergeCloseKeepAll(levels, k) == SubSeq(levels, 1, k)

\* lines 221-225 and 248-252: the first k candidates with every candidate
\* dropped that is within the tolerance of one kept before it
RECURSIVE MergeClose(_, _)
MergeClose(levels, k) ==
    IF k = 0 THEN <<>>
    ELSE LET kept == MergeClose(levels, k - 1) IN
         IF k = 1 \/ \A p \in 1..Len(kept) : FartherThanTolerance(levels[k], kept[p], levels)
         THEN Append(kept, levels[k]) ELSE kept

\* [level for level in levels if sgn * level < sgn * price]
RECURSIVE BeyondPrice(_, _, _)
BeyondPrice(levels, price, sgn) ==
    IF levels = <<>> THEN <<>>
    ELSE (IF sgn * Head(levels) < sgn * price THEN <<Head(levels)>> ELSE <<>>)
         \o BeyondPrice(Tail(levels), price, sgn)

\* list.sort(reverse = True) for sgn = 1, list.sort() for sgn = -1
RECURSIVE InsertBy(_, _, _)
InsertBy(x, sorted, sgn) ==
    IF sorted = <<>> THEN <<x>>
    ELSE IF sgn * x >= sgn * Head(sorted) THEN <<x>> \o sorted
    ELSE <<Head(sorted)>> \o InsertBy(x, Tail(sorted), sgn)

RECURSIVE SortBy(_, _)
SortBy(s, sgn) == IF s = <<>> THEN <<>> ELSE InsertBy(Head(s), SortBy(Tail(s), sgn), sgn)

\* the body shared by the two methods
FindLevels(values, current_price, window, sgn) ==
    LET levels == Extrema(values, window, sgn) IN
    IF levels = <<>> THEN <<>>
    ELSE LET sorted == SortBy(BeyondPrice(MergeClose(levels, Len(levels)),
                                          current_price, sgn), sgn)
         IN SubSeq(sorted, 1, MinOf(3, Len(sorted)))

FindSupportLevels(df) == FindLevels(df.low, df.close[Len(df.close)], LevelWindow, 1)
FindResistanceLevels(df) == FindLevels(df.high, df.close[Len(df.close)], LevelWindow, -1)

(***************************************************************************)
(* Specification: one call of either method on a table of candles.  The    *)
(* lows and highs sit at the base price except at one turning row in each  *)
(* stretch of 11 candles.                                                  *)
(***************************************************************************)
MaxTurns == 4

BasePrice == 10 * 10 * 10
TurnDepths == {0, 5, 100, 200, 300}
LastCloses == {BasePrice - 150, BasePrice + 150}

\* the lows (sgn = 1) or highs (sgn = -1) with the given depths of the turns
TurningSeries(depths, sgn) ==
    [row \in 1..((LevelWindow + 1) * Len(depths) + LevelWindow) |->
        IF row % (LevelWindow + 1) = 0
        THEN BasePrice - sgn * depths[row \div (LevelWindow + 1)]
        ELSE BasePrice]

\* the series with its last value replaced
WithLast(series, last) == [row \in 1..Len(series) |-> IF row = Len(series) THEN last ELSE series[row]]

\* every candle closes at the base price except the last; its low and high
\* enclose its close
CandleTables ==
    {[low   |-> WithLast(TurningSeries(depths, 1), MinOf(BasePrice, last)),
      high  |-> WithLast(TurningSeries(depths, -1), MaxOf(BasePrice, last)),
      close |-> WithLast(TurningSeries([k \in 1..Len(depths) |-> 0], 1), last)] :
        depths \in UNION {[1..k -> TurnDepths] : k \in 1..MaxTurns}, last \in LastCloses}

InitLevels ==
    /\ now = 0
    /\ \E df \in CandleTables, fn \in {"_find_support_levels", "_find_resistance_levels"} :
          f_call = [fn |-> fn, df |-> df]
    /\ f_ret = NotRun
    /\ ParserIdle /\ TradeIdle /\ DeltaIdle /\ BlockIdle /\ PosIdle /\ RunIdle /\ RngIdle
    /\ BotIdle

CallFindSupportLevels ==
    /\ f_call.fn = "_find_support_levels"
    /\ f_ret = NotRun
    /\ f_ret' = [at |-> "done", levels |-> FindSupportLevels(f_call.df)]
    /\ UNCHANGED <<now, f_call, parserVars, tradeVars, deltaVars, blockVars, posVars,
                   runVars, rngVars, botVars>>

CallFindResistanceLevels ==
    /\ f_call.fn = "_find_resistance_levels"
    /\ f_ret = NotRun
    /\ f_ret' = [at |-> "done", levels |-> FindResistanceLevels(f_call.df)]
    /\ UNCHANGED <<now, f_call, parserVars, tradeVars, deltaVars, blockVars, posVars,
                   runVars, rngVars, botVars>>

NextLevels == CallFindSupportLevels \/ CallFindResistanceLevels
SpecLevels == InitLevels /\ [][NextLevels]_vars

-----------------------------------------------------------------------------
(***************************************************************************)
(* RiskManagementAnalyzer._calculate_risk_metrics on the closing prices    *)
(* (stages/stage_4/risk_management.py) with calculate_volatility and       *)
(* calculate_sharpe_ratio of RiskCalculator.  Returns are in hundredths of *)
(* a percent, the volatility in tenths of a percent.                       *)
(***************************************************************************)
\* a numpy float: <<v>> when finite, nan, or inf
Infinity == <<1, 0>>
IsFinite(c) == Len(c) = 1

\* a / b on numpy floats, in thousandths: inf or nan when b is 0
FloatDiv(a, b) ==
    IF b # 0 THEN Cell(Quot(a * Milli, b))
    ELSE IF a = 0 THEN NaN ELSE Infinity

\* close_prices.pct_change().dropna()
PctChange(closes) ==
    [i \in 1..(Len(closes) - 1) |->
        Quot((closes[i + 1] - closes[i]) * 100 * 100, closes[i])]

\* returns.std() * 100
CalculateVolatility(returns) == Rat(SeriesStd(returns) \div 10, 10)

\* excess_returns / returns.std() without the check of the deviation
SharpeRatioUnguarded(returns, risk_free_rate) ==
    FloatDiv(SeriesMean(returns) - risk_free_rate, SeriesStd(returns))

\* excess_returns / returns.std() if returns.std() != 0 else 0
CalculateSharpeRatio(returns, risk_free_rate) ==
    IF SeriesStd(returns) # 0
    THEN FloatDiv(SeriesMean(returns) - risk_free_rate, SeriesStd(returns))
    ELSE Cell(0)

\* the value at risk in percent: calculate_var_monte_carlo(...) * 100
VarPercent(returns, confidence_level, time_horizon, draws) ==
    Rat(CalculateVarMonteCarlo(returns, confidence_level, time_horizon, draws),
        100 * Milli)

\* lines 81-143, the generator standing at position pos of its stream
CalculateRiskMetricsOfCloses(closes, pos) ==
    LET returns == PctChange(closes)
        var_95 == VarPercent(returns, 95, 1, DrawsAt(pos, Simulations))
        df == Frame(Len(closes), RInt(closes[Len(closes)]), Neytralnyy,
                    CalculateVolatility(returns), var_95)
    IN [sharpe_ratio |-> CalculateSharpeRatio(returns, 0)] @@ CalculateRiskMetrics(df)

(***************************************************************************)
(* Specification: the risk stage and the RSI on one close series.  The     *)
(* series are those of the indicator table whose spread of returns is      *)
(* either none at all or at least a tenth of a percent, which is what the  *)
(* fixed-point volatility resolves.                                        *)
(***************************************************************************)
RiskCloseSeries ==
    {s \in CloseSeries :
        \/ \A i \in 1..Len(s) : s[i] = s[1]
        \/ SeriesStd(PctChange(s)) >= 10}

InitRisk ==
    /\ now = 0
    /\ \/ \E closes \in RiskCloseSeries, pos \in 0..(Len(NormalStream) - 1) :
             f_call = [fn |-> "_calculate_risk_metrics", closes |-> closes, pos |-> pos]
       \/ \E closes \in RiskCloseSeries :
             f_call = [fn |-> "calculate_rsi", closes |-> closes]
    /\ f_ret = NotRun
    /\ ParserIdle /\ TradeIdle /\ DeltaIdle /\ BlockIdle /\ PosIdle /\ RunIdle /\ RngIdle
    /\ BotIdle

CallCalculateRiskMetrics ==
    /\ f_call.fn = "_calculate_risk_metrics"
    /\ f_ret = NotRun
    /\ f_ret' = [at |-> "risk_metrics",
                 risk_metrics |-> CalculateRiskMetricsOfCloses(f_call.closes, f_call.pos)]
    /\ UNCHANGED <<now, f_call, parserVars, tradeVars, deltaVars, blockVars, posVars,
                   runVars, rngVars, botVars>>

CallAnalyzeRisk ==
    /\ f_call.fn = "_calculate_risk_metrics"
    /\ f_ret # NotRun /\ f_ret.at = "risk_metrics"
    /\ f_ret' = [at |-> "risk_assessment", risk_metrics |-> f_ret.risk_metrics,
                 risk_assessment |-> AnalyzeRisk(f_ret.risk_metrics)]
    /\ UNCHANGED <<now, f_call, parserVars, tradeVars, deltaVars, blockVars, posVars,
                   runVars, rngVars, botVars>>

\* calculate_rsi with the window of the table, and the signal of its last row
CallCalculateRsi ==
    /\ f_call.fn = "calculate_rsi"
    /\ f_ret = NotRun
    /\ LET window == Windows(Len(f_call.closes)).RSI
           rsi == CalculateRsi(f_call.closes, window)
       IN f_ret' = [at |-> "rsi", window |-> window, rsi |-> rsi,
                    signal |-> RsiSignal([RSI |-> rsi[Len(rsi)]])]
    /\ UNCHANGED <<now, f_call, parserVars, tradeVars, deltaVars, blockVars, posVars,
                   runVars, rngVars, botVars>>

NextRisk == CallCalculateRiskMetrics \/ CallAnalyzeRisk \/ CallCalculateRsi
SpecRisk == InitRisk /\ [][NextRisk]_vars


-----------------------------------------------------------------------------
(***************************************************************************)
(* TelegramBot (tools/telegram_bot.py): the handlers of the dialogue that  *)
(* ends in an analysis thread, and the threads on the agent they share.    *)
(* An update is a command, a text message or the press of a button of an   *)
(* inline keyboard the bot has sent; a chat keeps its user_data, the state *)
(* of its conversation and the number of its messages that still show the  *)
(* currency keyboard or the days keyboard.                                 *)
(***************************************************************************)
Chats == {1, 2}
MaxKeyboards == 2
MaxThreads == 2

Btc == <<"B", "T", "C">>
Eth == <<"E", "T", "H">>
Underscore == "_"

\* callback_data of the buttons of the two keyboards (lines 131-137 and 163-173)
CurrencyData == {<<"c", "u", "r", "r", "e", "n", "c", "y", "_">> \o c : c \in {Btc, Eth}}
DaysData == {<<"d", "a", "y", "s", "_">> \o d :
                d \in {<<"1", "4">>, <<"3", "0">>, <<"6", "0">>, <<"9", "0">>}}
\* the day buttons pressed, and the texts sent
PressedDaysData == {d \in DaysData : d[6] \in {"1", "9"}}
Texts == {Btc, <<"e", "t", "h">>, <<"1", "3">>, <<"1", "4">>}

\* str.upper() on the letters of the texts
LowerLetters == <<"b", "c", "e", "h", "t">>
CapitalLetters == <<"B", "C", "E", "H", "T">>
Upper(s) ==
    [i \in 1..Len(s) |->
        IF \E k \in 1..Len(LowerLetters) : LowerLetters[k] = s[i]
        THEN CapitalLetters[CHOOSE k \in 1..Len(LowerLetters) : LowerLetters[k] = s[i]]
        ELSE s[i]]

\* int(text) raises ValueError unless the text is a run of digits
IntRaises(text) == text = <<>> \/ ~AllDigits(text)

\* ConversationHandler.END, and the chat before its first update
End == "END"
FreshChat == [user_data |-> EmptyDict, conv |-> End,
              keyboards |-> [currency |-> 0, days |-> 0]]

Command(name) == [kind |-> "command", command |-> name]
TextUpdate == [kind |-> "text"]

\* _register_handlers: the handlers in the order they are added, all to the
\* same group
Handlers == <<"start", "help", "analyze", "status", "settings", "conversation",
              "callback_query", "message">>

\* check_update of a handler: a CommandHandler takes its command, the
\* ConversationHandler its entry point or, once entered, text and its fallback,
\* the CallbackQueryHandler a button press, the MessageHandler text
CheckUpdate(handler, update, conv) ==
    IF handler = "conversation"
    THEN IF conv = End THEN update = Command("analyze")
         ELSE update.kind = "text" \/ update = Command("cancel")
    ELSE IF handler = "callback_query" THEN update.kind = "callback"
    ELSE IF handler = "message" THEN update.kind = "text"
    ELSE update = Command(handler)

\* the handler that gets the update: the first of the group that takes it
Dispatch(update, conv) ==
    LET taking == {i \in 1..Len(Handlers) : CheckUpdate(Handlers[i], update, conv)}
    IN IF taking = {} THEN "none"
       ELSE Handlers[CHOOSE i \in taking : \A j \in taking : i <= j]

Shown(chat) == bot_chats[chat].keyboards.currency + bot_chats[chat].keyboards.days

\* threading.Thread(target = _run_analysis_thread, args = (chat, currency, days)):
\* pc 0 before the thread runs
Thread(chat, currency, days) ==
    [chat |-> chat, currency |-> currency, days |-> days, pc |-> 0,
     outcome |-> NotRun]

\* user_data.get('currency'): a str or None
StoredCurrency(user_data) ==
    IF "currency" \in DOMAIN user_data THEN Str(user_data.currency) ELSE None

\* _start_analysis: the threads after it
StartAnalysis(chat, user_data, threads) ==
    IF "currency" \notin DOMAIN user_data \/ "days" \notin DOMAIN user_data
    THEN threads
    ELSE Append(threads, Thread(chat, Str(user_data.currency), user_data.days))

\* /analyze: _analyze_command sends a message with the currency keyboard
AnalyzeCommand(chat) ==
    /\ Shown(chat) < MaxKeyboards
    /\ Dispatch(Command("analyze"), bot_chats[chat].conv) = "analyze"
    /\ bot_chats' = [bot_chats EXCEPT ![chat].keyboards.currency = @ + 1]
    /\ UNCHANGED <<bot_threads, bot_context>>
    /\ UNCHANGED <<now, parserVars, tradeVars, deltaVars, blockVars, posVars, runVars,
                   fnVars, rngVars>>

\* /cancel: _cancel_command when the conversation takes the command
CancelCommand(chat) ==
    /\ bot_chats' =
          IF Dispatch(Command("cancel"), bot_chats[chat].conv) = "conversation"
          THEN [bot_chats EXCEPT ![chat].user_data = EmptyDict, ![chat].conv = End]
          ELSE bot_chats
    /\ UNCHANGED <<bot_threads, bot_context>>
    /\ UNCHANGED <<now, parserVars, tradeVars, deltaVars, blockVars, posVars, runVars,
                   fnVars, rngVars>>

\* a text message: _handle_currency or _handle_days when the conversation takes
\* it, else _handle_message, which answers from the context of the agent
TextMessage(chat, text) ==
    LET c == bot_chats[chat]
        taken == Dispatch(TextUpdate, c.conv) = "conversation"
    IN /\ IF taken /\ c.conv = "CHOOSING_CURRENCY" /\ Upper(text) \in {Btc, Eth}
          THEN /\ Shown(chat) < MaxKeyboards
               /\ bot_chats' = [bot_chats EXCEPT ![chat].user_data =
                                      UpdateContext(@, [currency |-> Upper(text)]),
                                   ![chat].keyboards.days = @ + 1,
                                   ![chat].conv = "CHOOSING_DAYS"]
               /\ UNCHANGED bot_threads
          ELSE IF /\ taken /\ c.conv = "CHOOSING_DAYS" /\ ~IntRaises(text)
                  /\ 14 <= DigitsValue(text) /\ DigitsValue(text) <= 365
          THEN LET user_data == UpdateContext(c.user_data, [days |-> DigitsValue(text)])
               IN /\ Len(bot_threads) < MaxThreads
                  /\ bot_chats' = [bot_chats EXCEPT ![chat].user_data = user_data,
                                                    ![chat].conv = End]
                  /\ bot_threads' = StartAnalysis(chat, user_data, bot_threads)
          ELSE UNCHANGED <<bot_chats, bot_threads>>
       /\ UNCHANGED bot_context
       /\ UNCHANGED <<now, parserVars, tradeVars, deltaVars, blockVars, posVars, runVars,
                      fnVars, rngVars>>

\* _button_callback, callback_data "cancel", on a message showing the keyboard
\* of the kind
PressCancel(chat, kind) ==
    /\ bot_chats[chat].keyboards[kind] > 0
    /\ bot_chats' = [bot_chats EXCEPT ![chat].user_data = EmptyDict,
                                      ![chat].keyboards[kind] = @ - 1]
    /\ UNCHANGED <<bot_threads, bot_context>>
    /\ UNCHANGED <<now, parserVars, tradeVars, deltaVars, blockVars, posVars, runVars,
                   fnVars, rngVars>>

\* _button_callback, callback_data "currency_...": the message shows the days
\* keyboard from now on
PressCurrency(chat, callback_data) ==
    /\ bot_chats[chat].keyboards.currency > 0
    /\ LET currency == Split(callback_data, Underscore)[2]
       IN bot_chats' = [bot_chats EXCEPT ![chat].user_data =
                               UpdateContext(@, [currency |-> currency]),
                            ![chat].keyboards.currency = @ - 1,
                            ![chat].keyboards.days = @ + 1]
    /\ UNCHANGED <<bot_threads, bot_context>>
    /\ UNCHANGED <<now, parserVars, tradeVars, deltaVars, blockVars, posVars, runVars,
                   fnVars, rngVars>>

\* _button_callback, callback_data "days_...": the thread is started with
\* user_data.get('currency') and the days of the button
PressDays(chat, callback_data) ==
    /\ bot_chats[chat].keyboards.days > 0
    /\ Len(bot_threads) < MaxThreads
    /\ LET days == DigitsValue(Split(callback_data, Underscore)[2])
       IN /\ bot_chats' = [bot_chats EXCEPT ![chat].user_data =
                                  UpdateContext(@, [days |-> days]),
                               ![chat].keyboards.days = @ - 1]
          /\ bot_threads' =
                Append(bot_threads,
                       Thread(chat, StoredCurrency(bot_chats[chat].user_data), days))
    /\ UNCHANGED bot_context
    /\ UNCHANGED <<now, parserVars, tradeVars, deltaVars, blockVars, posVars, runVars,
                   fnVars, rngVars>>

InitBot ==
    /\ now = 0
    /\ bot_chats = [chat \in Chats |-> FreshChat]
    /\ bot_threads = <<>>
    /\ bot_context = <<>>
    /\ ParserIdle /\ TradeIdle /\ DeltaIdle /\ BlockIdle /\ PosIdle /\ RunIdle /\ FnIdle
    /\ RngIdle

NextBot ==
    \E chat \in Chats :
        \/ AnalyzeCommand(chat)
        \/ CancelCommand(chat)
        \/ \E text \in Texts : TextMessage(chat, text)
        \/ \E kind \in {"currency", "days"} : PressCancel(chat, kind)
        \/ \E callback_data \in CurrencyData : PressCurrency(chat, callback_data)
        \/ \E callback_data \in PressedDaysData : PressDays(chat, callback_data)

SpecBot == InitBot /\ [][NextBot]_vars

(***************************************************************************)
(* The analysis threads: _run_analysis_thread calls                        *)
(* process_trades_for_telegram of the one agent, statement by statement.   *)
(* The result of a stage is abstracted to the request it was computed     *)
(* for.  pc counts the update_context calls the thread has made.           *)
(***************************************************************************)
AnalysisKeys == SubSeq(StageKeys, 1, 4)

\* analyzer.analyze(currency, days) of a stage
StageResult(currency, days) ==
    [status |-> "success", currency |-> currency, days |-> days]

\* base.py lines 411-416
SaveParameters(t) ==
    /\ bot_threads[t].pc = 0
    /\ bot_context' = UpdateContext(bot_context,
                                    [currency |-> bot_threads[t].currency,
                                     days |-> bot_threads[t].days,
                                     timestamp |-> now])
    /\ bot_threads' = [bot_threads EXCEPT ![t].pc = 1]
    /\ UNCHANGED bot_chats
    /\ UNCHANGED <<now, parserVars, tradeVars, deltaVars, blockVars, posVars, runVars,
                   fnVars, rngVars>>

\* base.py lines 418-436: one stage and the update of the context with its result
AnalysisStage(t) ==
    /\ bot_threads[t].pc \in 1..4
    /\ LET key == AnalysisKeys[bot_threads[t].pc]
       IN bot_context' =
              UpdateContext(bot_context,
                            [k \in {key} |-> StageResult(bot_threads[t].currency,
                                                         bot_threads[t].days)])
    /\ bot_threads' = [bot_threads EXCEPT ![t].pc = @ + 1]
    /\ UNCHANGED bot_chats
    /\ UNCHANGED <<now, parserVars, tradeVars, deltaVars, blockVars, posVars, runVars,
                   fnVars, rngVars>>

\* RecommendationGenerator.generate in thread t: the four results it gets from
\* the context, and the dict it returns
GenerateFrom(context, currency, days) ==
    [status |-> "success",
     recommendations |-> [currency |-> currency, days |-> days],
     read |-> [k \in {AnalysisKeys[i] : i \in 1..4} |-> Get(context, k, EmptyDict)]]

\* base.py lines 438-442, then the report sent to the chat of the thread
RecommendationStage(t) ==
    /\ bot_threads[t].pc = 5
    /\ LET results == GenerateFrom(bot_context, bot_threads[t].currency,
                                   bot_threads[t].days)
       IN /\ bot_context' = UpdateContext(bot_context, [recommendations |-> results])
          /\ bot_threads' = [bot_threads EXCEPT ![t].pc = 6, ![t].outcome = results]
    /\ UNCHANGED bot_chats
    /\ UNCHANGED <<now, parserVars, tradeVars, deltaVars, blockVars, posVars, runVars,
                   fnVars, rngVars>>

\* two analyses started from the two chats
Requests(chat) ==
    {Thread(chat, Str(currency), days) : currency \in {Btc, Eth}, days \in {14, 90}}

InitThreads ==
    /\ now = 0
    /\ bot_chats = <<>>
    /\ \E first \in Requests(1), second \in Requests(2) : bot_threads = <<first, second>>
    /\ bot_context = <<>>
    /\ ParserIdle /\ TradeIdle /\ DeltaIdle /\ BlockIdle /\ PosIdle /\ RunIdle /\ FnIdle
    /\ RngIdle

NextThreads ==
    \E t \in 1..Len(bot_threads) :
        SaveParameters(t) \/ AnalysisStage(t) \/ RecommendationStage(t)

SpecThreads == InitThreads /\ [][NextThreads]_vars


-----------------------------------------------------------------------------
(* Claims about the two identifier parsers                                 *)

\* the grammar ASSET-EXPIRATION-STRIKE-TYPE: exactly four fields, a date, a
\* numeric strike and one of the two type letters
WellFormedIdentifier(s) ==
    LET parts == Split(s, Dash) IN
    /\ Len(parts) = 4
    /\ parts[1] # <<>>
    /\ ~StrptimeRaises(parts[2])
    /\ IsFloatLiteral(parts[3])
    /\ parts[4] \in {<<"C">>, <<"P">>}

\* C3: the strict parser InstrumentParser.parse returns an InstrumentInfo only for
\* identifiers of the form ASSET-EXPIRATION-STRIKE-TYPE and fails, with an error
\* carrying the identifier, for every other one (wrong field count, non-numeric
\* strike, unrecognized option type, unparseable date).
C3_StrictParseRejectsMalformed ==
    p_out # NotRun =>
        IF WellFormedIdentifier(p_name)
        THEN p_out.kind = "InstrumentInfo"
        ELSE p_out = [kind |-> "ValueError", name |-> p_name]

\* C5: every InstrumentInfo returned by InstrumentParser.parse has a positive
\* strike and an option type that is 'C' or 'P'.
C5_ParsedStrikePositiveTypeKnown ==
    p_out.kind = "InstrumentInfo" =>
        /\ p_out.strike[1] > 0
        /\ p_out.option_type \in {<<"C">>, <<"P">>}

\* C4: Trade.parse_instrument_name, given a name its pattern does not match, does
\* not raise and returns the fallback InstrumentInfo: asset = first '-' segment,
\* expiration 'UNKNOWN', strike 0, option type '?'.
C4_LenientFallbackReturned ==
    (t_ret # NotRun /\ t_parsed = None /\ ReMatch(t_name) = NoMatch) =>
        /\ t_ret.kind = "InstrumentInfo"
        /\ t_ret.asset = Split(t_name, Dash)[1]
        /\ t_ret.expiration = <<"U", "N", "K", "N", "O", "W", "N">>
        /\ t_ret.strike = 0
        /\ t_ret.option_type = <<"?">>

\* the parsed tuple accounts for the whole name: four fields, each the field parsed
CorrespondsToWholeName(info, s) ==
    LET parts == Split(s, Dash) IN
    /\ Len(parts) = 4
    /\ info.asset = parts[1]
    /\ info.expiration = parts[2]
    /\ AllDigits(parts[3]) /\ parts[3] # <<>> /\ info.strike = DigitsValue(parts[3])
    /\ info.option_type = parts[4]
    /\ info.option_type \in {<<"C">>, <<"P">>}

IsUnparseableMarker(info) ==
    info.expiration = <<"U", "N", "K", "N", "O", "W", "N">> /\ info.option_type = <<"?">>

\* C6: after any sequence of instrument_info / parse_instrument_name calls, the
\* parsed instrument of a Trade is a well-formed tuple that corresponds to the whole
\* instrument_name, or the explicit unparseable marker; a name with a malformed part
\* (trailing characters after the type letter) is never accepted as well-formed.
C6_ParsedWholeNameOrMarked ==
    /\ t_ret.kind = "InstrumentInfo" =>
           CorrespondsToWholeName(t_ret, t_name) \/ IsUnparseableMarker(t_ret)
    /\ t_parsed # None =>
           CorrespondsToWholeName(t_parsed, t_name) \/ IsUnparseableMarker(t_parsed)

-----------------------------------------------------------------------------
(* Claims about calculate_delta and the block-trade stage                  *)

AnyInputFalsy ==
    \/ d_in.current_price = 0 \/ d_in.strike = 0
    \/ d_in.expiry_date = None \/ d_in.volatility = 0
Expired == d_in.expiry_date # None /\ d_in.expiry_date.hours <= now
TypeRecognized == d_in.option_type \in {<<"C">>, <<"P">>}
PositiveInputs == d_in.current_price > 0 /\ d_in.strike > 0 /\ d_in.volatility > 0
ExpiryInFuture == d_in.expiry_date # None /\ d_in.expiry_date.hours > now
ExpiryWholeDayAhead == d_in.expiry_date # None /\ d_in.expiry_date.hours >= now + 24

NeverRaisesAndNoneCases ==
    /\ d_out.kind \in {"None", "OptionMetrics"}
    /\ (AnyInputFalsy \/ Expired \/ ~TypeRecognized) => d_out = None

\* C1 as stated: calculate_delta never raises, returns None for falsy inputs,
\* expired options and unrecognized types, and returns an OptionMetrics for every
\* call with positive spot, strike and volatility, a future expiry and type C or P.
C1_DeltaForEveryFutureExpiry ==
    d_out # NotRun =>
        /\ NeverRaisesAndNoneCases
        /\ (PositiveInputs /\ ExpiryInFuture /\ TypeRecognized)
               => d_out.kind = "OptionMetrics"

\* What calculate_delta does guarantee (C1 with whole days): nothing is raised, the
\* None cases are as above, and an OptionMetrics is returned for every call with
\* positive spot, strike and volatility, type C or P and an expiry at least 24
\* hours after now.
C1_DeltaForExpiryADayAhead ==
    d_out # NotRun =>
        /\ NeverRaisesAndNoneCases
        /\ (PositiveInputs /\ ExpiryWholeDayAhead /\ TypeRecognized)
               => d_out.kind = "OptionMetrics"

\* a delta computed for an option one whole day from expiry
C1_Witness ==
    /\ d_out.kind = "OptionMetrics"
    /\ d_out.days_to_expiry = 1
    /\ PositiveInputs

\* the rows of the input for which a delta can be computed
Computable(trade) ==
    /\ Parse(trade.instrument_name).kind = "InstrumentInfo"
    /\ CalculateDelta(trade.index_price,
                      FloatOf(Parse(trade.instrument_name).strike),
                      Datetime(Parse(trade.instrument_name).expiry_date * 24),
                      trade.iv, Parse(trade.instrument_name).option_type, now) # None
ComputableRows == {i \in 1..Len(b_trades) : Computable(b_trades[i])}
RowType(i) == Parse(b_trades[i].instrument_name).option_type
RowDelta(i) ==
    CalculateDelta(b_trades[i].index_price,
                   FloatOf(Parse(b_trades[i].instrument_name).strike),
                   Datetime(Parse(b_trades[i].instrument_name).expiry_date * 24),
                   b_trades[i].iv, RowType(i), now).delta

RECURSIVE SumRows(_, _)
SumRows(rows, weight) ==
    IF rows = {} THEN 0
    ELSE LET i == CHOOSE j \in rows : TRUE
         IN weight[i] + SumRows(rows \ {i}, weight)

\* C2: a trade whose delta cannot be computed is excluded from every aggregate of
\* the block-trade result (total_trades, calls_count, puts_count, total_delta,
\* call_volume, put_volume) rather than counted with a zero delta, and every other
\* trade of the input is analysed.
C2_UncomputableTradesExcluded ==
    b_out # NotRun =>
        IF ComputableRows = {} THEN b_out = [status |-> "no_data"]
        ELSE LET callRows == {i \in ComputableRows : RowType(i) = <<"C">>}
                 putRows == {i \in ComputableRows : RowType(i) = <<"P">>}
                 amount == [i \in 1..Len(b_trades) |-> b_trades[i].amount]
                 weighted == [i \in 1..Len(b_trades) |->
                                 IF i \in ComputableRows
                                 THEN RowDelta(i) * b_trades[i].amount ELSE 0]
             IN /\ b_out.total_trades = Cardinality(ComputableRows)
                /\ b_out.calls_count = Cardinality(callRows)
                /\ b_out.puts_count = Cardinality(putRows)
                /\ b_out.total_delta = SumRows(ComputableRows, weighted)
                /\ b_out.call_volume = SumRows(callRows, amount)
                /\ b_out.put_volume = SumRows(putRows, amount)

\* a result over a list that holds a row without a delta between two rows with one
C2_Witness ==
    /\ b_out # NotRun
    /\ Len(b_trades) = 3
    /\ ComputableRows = {1, 3}
    /\ b_out.total_trades = 2

-----------------------------------------------------------------------------
(* Claims about calculate_position_size                                    *)

\* C10: calculate_position_size called with stop_loss_percent <= 0 or
\* volatility_percent <= 0 returns the error marker (position_size 0 and an error
\* message) and never a computed position: the dict has no position_value,
\* capital_percent or potential_loss, and no division was attempted.
C10_NonPositiveStopOrVolatilityGivesErrorMarker ==
    (/\ pos_out # NotRun
     /\ \/ pos_in.stop_loss_percent[1] <= 0
        \/ pos_in.volatility_percent[1] <= 0)
        => /\ pos_out = PositionError
           /\ DOMAIN pos_out = {"position_size", "error"}
           /\ DOMAIN pos_out \cap {"position_value", "capital_percent",
                                   "potential_loss"} = {}

\* the error marker returned for a stop-loss of zero with valid other arguments
C10_Witness ==
    /\ pos_out = PositionError
    /\ pos_in.stop_loss_percent = RInt(0)
    /\ pos_in.volatility_percent[1] > 0
    /\ pos_in.capital[1] > 0

-----------------------------------------------------------------------------
(* Claims about the stages and the orchestrator                            *)

\* the price history a stage was given does not allow an analysis
FetchFailed(data) == "data" \notin DOMAIN data
TooShort(data) == "data" \in DOMAIN data /\ data.data.len < MinCandles
Returned(key, result) ==
    \E i \in 1..Len(r_done) : r_done[i] = [key |-> key, result |-> result]

\* C7: when the price fetch fails or returns fewer than 14 candles, the technical
\* stage and the risk stage each return exactly {'status': 'error'} to the
\* orchestrator (nothing is raised) and none of their indicator or risk
\* computations is invoked.
C7_ShortHistoryGivesErrorWithoutComputing ==
    /\ (r_fetch.technical # NotRun
            /\ (FetchFailed(r_fetch.technical) \/ TooShort(r_fetch.technical)))
        => /\ Returned("technical_analysis", [status |-> "error"])
           /\ r_context["technical_analysis"] = [status |-> "error"]
           /\ r_calls \cap TechnicalHelpers = {}
    /\ (r_fetch.risk # NotRun
            /\ (FetchFailed(r_fetch.risk) \/ TooShort(r_fetch.risk)))
        => /\ Returned("risk_management", [status |-> "error"])
           /\ r_context["risk_management"] = [status |-> "error"]
           /\ r_calls \cap RiskHelpers = {}

\* both stages ran on 13 candles, one short of the minimum
C7_Witness ==
    /\ TooShort(r_fetch.technical) /\ r_fetch.technical.data.len = MinCandles - 1
    /\ TooShort(r_fetch.risk)
    /\ r_context["risk_management"] = [status |-> "error"]
    /\ r_calls = {}

\* C8: the recommendation stored by generate never has status 'success' with
\* price, stop-loss, take-profit and position-size values while the technical or
\* the risk result it read from the context has status 'error'.
C8_NoSuccessOnErrorStages ==
    \A i \in 1..Len(r_done) :
        (/\ r_done[i].key = "recommendations"
         /\ r_done[i].result.status = "success"
         /\ {"current_price", "stop_loss_price", "stop_loss_percent",
             "take_profit_price", "take_profit_percent", "position_size"}
                \subseteq DOMAIN r_done[i].result.recommendations)
            => /\ r_context["technical_analysis"].status # "error"
               /\ r_context["risk_management"].status # "error"

\* the run ended in the except clause of its entry point
EndedInError ==
    /\ r_pc = "idle" /\ r_outcome # NotRun
    /\ "error" \in DOMAIN r_outcome

\* C9: an exception raised in a stage ends the run in the except clause of the
\* entry point, which reports it (an error dict for the bot, show_error for the
\* console) and leaves in the shared context, under its key, the result of every
\* stage that completed in the run.
C9_FailedRunKeepsCompletedStages ==
    /\ r_pc \in {"idle", "block_trades", "fundamental", "technical", "risk",
                 "conclusion", "recommendations"}
    /\ EndedInError
        => /\ r_outcome = Handled(r_run.entry, r_outcome.error)
           /\ r_outcome.error \in {"OperationalError", "KeyError", "ZeroDivisionError"}
           /\ \A i \in 1..Len(r_done) :
                /\ r_done[i].key \in DOMAIN r_context
                /\ r_context[r_done[i].key] = r_done[i].result

\* a bot run that failed in the recommendation stage after four completed stages
C9_Witness ==
    /\ EndedInError
    /\ r_run.entry = "telegram"
    /\ r_outcome.error = "ZeroDivisionError"
    /\ Len(r_done) = 4
    /\ r_context["technical_analysis"] = r_done[3].result

-----------------------------------------------------------------------------
(***************************************************************************)
(* Claims about the Monte Carlo VaR                                        *)
(***************************************************************************)
\* C11: for a fixed return series and horizon and the same simulated draws, the
\* VaR at confidence 0.99 is at least the VaR at confidence 0.95, for every
\* return series.
C11_VarMonotoneInConfidence ==
    f_ret # NotRun => f_ret.var_99 >= f_ret.var_95

\* the value the k-th VaR call of analysis t returns when no other analysis runs
ValueAlone(t, k) ==
    CalculateVarMonteCarlo(g_threads[t].returns, RiskVarCalls[k].confidence_level,
                           RiskVarCalls[k].time_horizon,
                           DrawsAt(g_rng0 + (k - 1) * Simulations, Simulations))

\* C12: the value a VaR call returns does not depend on whether or how the VaR
\* calls of a concurrent analysis interleave with it: it is the value the call
\* returns when its analysis runs alone.
C12_VarCallIsolated ==
    \A t \in DOMAIN g_threads :
        \A k \in 1..Len(g_threads[t].results) : g_threads[t].results[k] = ValueAlone(t, k)

-----------------------------------------------------------------------------
(***************************************************************************)
(* Claims about the strategy classifiers                                   *)
(***************************************************************************)
LegType(trades, i) == trades[i].instrument_info.option_type
LegStrike(trades, i) == trades[i].instrument_info.strike

\* the label the composition of a group calls for
CompositionLabel(trades) ==
    IF Len(trades) = 2
    THEN LET types   == {LegType(trades, 1), LegType(trades, 2)}
             differ  == LegStrike(trades, 1) # LegStrike(trades, 2)
         IN IF types = {"C", "P"} THEN (IF differ THEN "Risk Reversal" ELSE "Straddle")
            ELSE IF types = {"C"} /\ differ THEN "Call Spread"
            ELSE IF types = {"P"} /\ differ THEN "Put Spread"
            ELSE "Complex Strategy"
    ELSE IF Len(trades) = 4 THEN "Iron Condor/Butterfly"
    ELSE "Complex Strategy"

\* C13: get_block_strategy labels a group by its size and type/strike
\* composition: call and put at equal strikes 'Straddle', at different strikes
\* 'Risk Reversal', two legs of one type 'Call Spread' / 'Put Spread' only when
\* the strikes differ, four legs 'Iron Condor/Butterfly', every other group
\* 'Complex Strategy', whatever the order of the legs.
C13_BlockStrategyByComposition ==
    (f_call # None /\ f_call.fn = "get_block_strategy" /\ f_ret # NotRun)
        => f_ret.value = CompositionLabel(f_call.trades)

\* the strategy a combo id names: the label of its tag field
NamedStrategy(combo_id) ==
    LET tag == Split(combo_id.value, Dash)[2]
    IN IF \E i \in 1..Len(StrategyTags) : StrategyTags[i].tag = tag
       THEN (CHOOSE e \in SetOf(StrategyTags) : e.tag = tag).label
       ELSE "Unknown Strategy"

\* C14: identify_strategy gives 'Single Trade' for an absent or empty combo id
\* and otherwise the label of the strategy the combo id names ('Unknown
\* Strategy' when it names none of the known tags), never the label of another
\* strategy whose tag happens to occur in the id.
C14_ComboLabelIsNamedStrategy ==
    (f_call # None /\ f_call.fn = "identify_strategy" /\ f_ret # NotRun)
        => f_ret.value = (IF f_call.combo_id \in {None, Str(<<>>)} THEN "Single Trade"
                          ELSE NamedStrategy(f_call.combo_id))

-----------------------------------------------------------------------------
(***************************************************************************)
(* Claims about the technical indicators                                   *)
(***************************************************************************)
Analysed == f_ret # NotRun /\ f_ret.at = "done"
Bulls == CountSignals(f_ret.analysis.signals, BullSignals)
Bears == CountSignals(f_ret.analysis.signals, BearSignals)

\* C15: with bulls the number of up / bullish / oversold signals and bears the
\* number of down / bearish / overbought signals among trend, RSI, MACD and
\* Bollinger, the overall signal is strong bullish iff bulls - bears >= 2,
\* moderate bullish iff bulls - bears = 1, strong bearish iff bears - bulls >= 2,
\* moderate bearish iff bears - bulls = 1, and neutral iff bulls = bears.
C15_OverallSignalByMajority ==
    Analysed =>
        LET overall == f_ret.analysis.overall_signal IN
        /\ overall = SilnyyBychiy      <=> Bulls - Bears >= 2
        /\ overall = UmerennoBychiy    <=> Bulls - Bears = 1
        /\ overall = SilnyyMedvezhiy   <=> Bears - Bulls >= 2
        /\ overall = UmerennoMedvezhiy <=> Bears - Bulls = 1
        /\ overall = Neytralnyy        <=> Bulls = Bears

\* a last row with an up trend, an oversold RSI and a bearish MACD: bulls lead by one
C15_Witness ==
    /\ Analysed
    /\ f_call.fn = "_analyze_indicators"
    /\ f_ret.analysis.signals.trend = "voskhodyashchiy"
    /\ f_ret.analysis.signals.RSI = "pereprodan"
    /\ f_ret.analysis.signals.MACD = "medvezhiy"
    /\ f_ret.analysis.signals.Bollinger = "neytralnyy"
    /\ f_ret.analysis.overall_signal = UmerennoBychiy

\* 20 closes rising steadily from 100 to 120
Rising20 == SeriesOf(<<20>>, 20)

\* C16: for a 20-candle close series rising steadily from 100 to 120 the trend
\* is up, the MACD signal is bullish and the overall signal is moderate or
\* strong bullish.
C16_SteadyRiseIsBullish ==
    (Analysed /\ f_call.fn = "analyze" /\ f_call.closes = Rising20) =>
        /\ f_ret.analysis.signals.trend = "voskhodyashchiy"
        /\ f_ret.analysis.signals.MACD = "bychiy"
        /\ f_ret.analysis.overall_signal \in {UmerennoBychiy, SilnyyBychiy}

IsConstant(closes) == \A i \in 1..Len(closes) : closes[i] = closes[1]

RsiInRange(column) ==
    \A i \in 1..Len(column) :
        ~IsNaN(column[i]) => (0 <= column[i][1] /\ column[i][1] <= 100 * Milli)

\* C17: the RSI of a non-constant close series is within [0, 100] at every row,
\* and for a constant close series the computation completes and the RSI signal
\* is neutral, neither overbought nor oversold.
C17_RsiInRangeAndConstantNeutral ==
    (f_ret # NotRun /\ f_call.fn = "analyze") =>
        /\ f_ret.at = "columns" => RsiInRange(f_ret.data.RSI)
        /\ (f_ret.at = "done" /\ IsConstant(f_call.closes))
              => f_ret.analysis.signals.RSI = "neytralnyy"

ColumnDefined(column) == \A i \in 1..Len(column) : ~IsNaN(column[i])
ColumnAllNaN(column) == \A i \in 1..Len(column) : IsNaN(column[i])

\* C20: for every accepted price series (n >= 14 closes) each adaptive window is
\* at least 1 and at most n, so no indicator column is undefined at every row;
\* after the forward and backward fill every indicator is defined at every row
\* and the table has exactly n rows.
C20_WindowsFitAndTableFilled ==
    (f_ret # NotRun /\ f_call.fn = "analyze") =>
        LET n == Len(f_call.closes) IN
        /\ f_ret.at = "columns" =>
              /\ \A w \in DOMAIN f_ret.windows : 1 <= f_ret.windows[w] /\ f_ret.windows[w] <= n
              /\ \A c \in DOMAIN f_ret.data : ~ColumnAllNaN(f_ret.data[c])
        /\ f_ret.at = "done" =>
              \A c \in DOMAIN f_ret.indicators.dataframe :
                  /\ Len(f_ret.indicators.dataframe[c]) = n
                  /\ ColumnDefined(f_ret.indicators.dataframe[c])

\* the shortest accepted series, whose columns had gaps before the fill
C20_Witness ==
    /\ Analysed
    /\ f_call.fn = "analyze"
    /\ Len(f_call.closes) = MinCandles
    /\ ~IsConstant(f_call.closes)
    /\ IsNaN(IndicatorColumns(f_call.closes).SMA_20[1])
    /\ ColumnDefined(f_ret.indicators.dataframe.SMA_20)
    /\ ColumnDefined(f_ret.indicators.dataframe.RSI)

-----------------------------------------------------------------------------
(***************************************************************************)
(* Claims about the call and put delta                                     *)
(***************************************************************************)
\* calculate_delta on the inputs of the call at hand, for the given option type
DeltaFor(option_type) ==
    CalculateDelta(d_in.current_price, d_in.strike, d_in.expiry_date, d_in.volatility,
                   option_type, now)

\* C18: whenever calculate_delta returns a result, the call delta and the put
\* delta of the same spot, strike, expiry and volatility differ by one:
\* delta_call = Phi(d1) in [0, 1], delta_put = Phi(d1) - 1.
C18_CallDeltaMinusPutDeltaIsOne ==
    (d_out # NotRun /\ d_out # None) =>
        LET call == DeltaFor(<<"C">>)
            put  == DeltaFor(<<"P">>)
        IN /\ d_out = DeltaFor(d_in.option_type)
           /\ call # None /\ put # None
           /\ 0 <= call.delta /\ call.delta <= Milli
           /\ call.delta - put.delta = Milli

\* a put whose delta lies strictly between -1 and 0
C18_Witness ==
    /\ d_out # NotRun /\ d_out # None
    /\ d_in.option_type = <<"P">>
    /\ -Milli < d_out.delta /\ d_out.delta < 0

-----------------------------------------------------------------------------
(***************************************************************************)
(* Claims about the round trip of an identifier                            *)
(***************************************************************************)
\* the canonical numeral of a strike field: no sign, no zeros in front, a
\* fraction only when there is one ('110000', '2.5')
CanonicalStrike(field) ==
    LET x == FloatValue(field) IN
    StrInt(x[1] \div x[2])
        \o (IF FractionDigits(x) = <<>> THEN <<>> ELSE <<".">> \o FractionDigits(x))

\* the canonical form of an identifier of the grammar
CanonicalForm(s) ==
    LET parts == Split(s, Dash) IN
    Join(<<parts[1], parts[2], CanonicalStrike(parts[3]), parts[4]>>, Dash)

\* the parsed fields as strings, joined with '-'
Reconstructed(info) ==
    Join(<<info.asset, info.expiration, StrFloat(info.strike), info.option_type>>, Dash)

\* C19: for every identifier of the grammar ASSET-EXPIRATION-STRIKE-TYPE, parse
\* returns fields which, joined with '-', give the canonical form of the
\* identifier.
C19_ParseRoundTrips ==
    (p_out # NotRun /\ WellFormedIdentifier(p_name)) =>
        /\ p_out.kind = "InstrumentInfo"
        /\ Reconstructed(p_out) = CanonicalForm(p_name)

-----------------------------------------------------------------------------
(***************************************************************************)
(* Claims about the support and resistance levels                          *)
(***************************************************************************)
\* the side of the call at hand: 1 for supports (lows), -1 for resistances (highs)
LevelSide == IF f_call.fn = "_find_support_levels" THEN 1 ELSE -1
LevelValues == IF LevelSide = 1 THEN f_call.df.low ELSE f_call.df.high

\* the rows window <= i < n - window whose value is extreme within +/-window rows
ExtremeRows ==
    {row \in (LevelWindow + 1)..(Len(LevelValues) - LevelWindow) :
        \A other \in (row - LevelWindow)..(row + LevelWindow) :
            LevelSide * LevelValues[row] <= LevelSide * LevelValues[other]}

\* one hundred times the sum of the candidates: a distance d is within 1% of
\* their mean when 100 * d * (number of candidates) is at most their sum
CandidateSum ==
    LET rows == ExtremeRows
        RECURSIVE Total(_)
        Total(S) == IF S = {} THEN 0
                    ELSE LET r == CHOOSE r \in S : TRUE
                         IN LevelValues[r] + Total(S \ {r})
    IN Total(rows)

\* C21: every level returned is the low of a row i, window <= i < n - window,
\* that is lowest within +/-window rows, and is strictly below the last close;
\* the list is sorted nearest to the price first, has at most 3 levels and no
\* two levels within 1% of the mean candidate of each other; symmetrically for
\* resistances on highs above the last close.
C21_LevelsAreFilteredLocalExtrema ==
    (f_ret # NotRun /\ f_call.fn \in {"_find_support_levels", "_find_resistance_levels"}) =>
        LET levels == f_ret.levels
            price  == f_call.df.close[Len(f_call.df.close)]
        IN /\ Len(levels) <= 3
           /\ \A k \in 1..Len(levels) :
                 /\ \E row \in ExtremeRows : LevelValues[row] = levels[k]
                 /\ LevelSide * levels[k] < LevelSide * price
           /\ \A k \in 1..(Len(levels) - 1) :
                 Abs(price - levels[k]) <= Abs(price - levels[k + 1])
           /\ \A k, l \in 1..Len(levels) :
                 k # l => 100 * Abs(levels[k] - levels[l]) * Cardinality(ExtremeRows)
                              > CandidateSum

\* four distinct supports below the price, of which the three nearest are returned
C21_Witness ==
    /\ f_ret # NotRun
    /\ f_call.fn = "_find_support_levels"
    /\ Cardinality({f_call.df.low[r] : r \in ExtremeRows}) >= 4
    /\ Len(f_ret.levels) = 3
    /\ f_ret.levels[1] > f_ret.levels[3]

-----------------------------------------------------------------------------
(* Claims about the zero divisors of the RSI, the Sharpe ratio and the      *)
(* value at risk                                                           *)

RFinite(x) == x[2] # 0
Tiers == {"conservative", "moderate", "aggressive"}

\* a position dict holds finite numbers only
PositionFinite(position) ==
    /\ ~IsRaised(position)
    /\ \A k \in DOMAIN position \ {"error"} : RFinite(position[k])

RiskMetricsFinite(m) ==
    /\ IsFinite(m.sharpe_ratio)
    /\ RFinite(m.var_95) /\ RFinite(m.volatility) /\ RFinite(m.potential_loss_95)
    /\ \A tier \in Tiers :
          /\ RFinite(m.stop_loss[tier].percent)
          /\ RFinite(m.stop_loss[tier].price_level)
          /\ PositionFinite(m.position_sizing[tier])

RiskMetricsMade == f_ret # NotRun /\ f_ret.at \in {"risk_metrics", "risk_assessment"}
RsiMade == f_ret # NotRun /\ f_ret.at = "rsi"

-----------------------------------------------------------------------------
(* Claims about the position sizes of the risk stage                       *)

RiskAssessed == f_ret # NotRun /\ f_ret.at = "risk_assessment"
ModeratePosition == f_ret.risk_metrics.position_sizing.moderate

\* C28: when the moderate position of the risk metrics is the error marker of
\* calculate_position_size, the assessment of the position is 'ne opredelena'.
C28_ErrorMarkerIsUndetermined ==
    (RiskAssessed /\ "error" \in DOMAIN ModeratePosition) =>
        f_ret.risk_assessment.position_assessment = "ne opredelena"

\* C30: each of the three positions sized by the risk stage is at most the whole
\* capital: position_size <= 1.0, capital_percent <= 100, position_value <= capital.
C30_PositionWithinCapital ==
    RiskMetricsMade =>
        \A tier \in Tiers :
            LET position == f_ret.risk_metrics.position_sizing[tier]
            IN "error" \notin DOMAIN position =>
                  /\ RLeq(position.position_size, RInt(1))
                  /\ RLeq(position.capital_percent, Hundred)
                  /\ RLeq(position.position_value, Capital)

-----------------------------------------------------------------------------
(* Claims about the potential loss of a sized position                     *)

PositiveSizingInput ==
    /\ RLess(RInt(0), pos_in.capital) /\ RLeq(RInt(0), pos_in.max_risk_percent)
    /\ RLess(RInt(0), pos_in.stop_loss_percent)
    /\ RLess(RInt(0), pos_in.volatility_percent)

RiskAmount == RMul(pos_in.capital, RDiv(pos_in.max_risk_percent, Hundred))

\* the position fraction that another capital gets with the same percentages
FractionAt(capital) ==
    CalculatePositionSize(capital, pos_in.max_risk_percent, pos_in.stop_loss_percent,
                          pos_in.volatility_percent).position_size

\* C29: for capital > 0, max_risk_percent >= 0, stop_loss_percent > 0 and
\* volatility_percent > 0 the call returns a sized position whose potential_loss
\* is at most capital * max_risk_percent / 100, and whose position_size is the
\* one every other positive capital gets.
C29_PotentialLossWithinRiskAmount ==
    (pos_out # NotRun /\ PositiveSizingInput) =>
        /\ ~IsRaised(pos_out) /\ "error" \notin DOMAIN pos_out
        /\ RLeq(pos_out.potential_loss, RiskAmount)
        /\ \A capital \in PosCapitals :
              RLess(RInt(0), capital) => FractionAt(capital) = pos_out.position_size

\* a position sized for a positive risk amount, its potential loss below it
C29_Witness ==
    /\ pos_out # NotRun /\ PositiveSizingInput
    /\ RLess(RInt(0), RiskAmount)
    /\ RLess(pos_out.potential_loss, RiskAmount)

-----------------------------------------------------------------------------
(* Claims about the time to expiry of calculate_delta                      *)

\* C23: with positive spot, strike and volatility, a recognized type and an
\* expiry date, calculate_delta returns None exactly when the time from now to
\* the expiry, as a fraction of a year, is at most zero; an expiry later than
\* now yields a delta.
C23_NoneExactlyWhenTimeToExpiryNotPositive ==
    (d_out # NotRun /\ PositiveInputs /\ TypeRecognized /\ d_in.expiry_date # None) =>
        (d_out = None <=> d_in.expiry_date.hours - now <= 0)

-----------------------------------------------------------------------------
(* Claims about the run after each outcome of the block-trade stage        *)

RunEnded == r_pc = "idle" /\ r_outcome # NotRun

\* the trades were read, the news and both price histories were fetched
ExternalIoSucceeded ==
    /\ Len(r_done) >= 4
    /\ r_done[2].result.status = "success"
    /\ r_fetch.technical # NotRun /\ r_fetch.technical.status = "success"
    /\ r_fetch.risk # NotRun /\ r_fetch.risk.status = "success"

\* C27: whatever the block-trade stage returned, a run whose reads and fetches
\* succeeded ends with all five stage results, the last with status 'success'.
C27_RunReachesSuccessfulRecommendation ==
    (RunEnded /\ ExternalIoSucceeded) =>
        /\ Len(r_done) = 5
        /\ r_done[5].key = "recommendations"
        /\ r_done[5].result.status = "success"

-----------------------------------------------------------------------------
(* Claims about the context after several runs                             *)

\* C25: between the runs of the bot, the recommendations held in the shared
\* context were produced by the run whose currency, days and timestamp the
\* context records: they carry its currency and days and were generated at its
\* time.
C25_RecommendationsBelongToRecordedRun ==
    (/\ r_pc = "idle" /\ r_run # None /\ r_run.entry = "telegram"
     /\ "recommendations" \in DOMAIN r_context) =>
        /\ r_context.recommendations.timestamp = r_context.timestamp
        /\ r_context.recommendations.recommendations.currency = r_context.currency
        /\ r_context.recommendations.recommendations.days = r_context.days

-----------------------------------------------------------------------------
(* Claims about the bot and its analysis threads                           *)

\* C26: every analysis thread the bot has started was started with currency BTC
\* or ETH and with 14 <= days <= 365, whatever commands, texts and button
\* presses came before.
C26_ThreadsStartWithValidRequest ==
    \A t \in 1..Len(bot_threads) :
        /\ bot_threads[t].currency \in {Str(Btc), Str(Eth)}
        /\ 14 <= bot_threads[t].days /\ bot_threads[t].days <= 365

\* C24: the recommendation a thread returns to its chat was generated from
\* block-trade, fundamental, technical and risk results computed for the
\* currency and days of the thread's own request.
C24_RecommendationFromOwnResults ==
    \A t \in 1..Len(bot_threads) :
        bot_threads[t].pc = 6 =>
            \A key \in DOMAIN bot_threads[t].outcome.read :
                bot_threads[t].outcome.read[key] =
                    StageResult(bot_threads[t].currency, bot_threads[t].days)

====
